---------------------------- MODULE Spec2Model ----------------------------
(***************************************************************************)
(* A model of the render engine's document preparation pipeline:           *)
(*   - the Delta transpiler        (render-engine/src/delta_parser.rs)     *)
(*   - the memo schema validator   (render-engine/src/form_validation.rs)  *)
(*   - the asset registry          (render-engine/src/assets.rs)           *)
(*   - the content dispatcher      (render-engine/src/form_processor.rs)   *)
(*   - the compiler's file lookup  (render-engine/src/typst_wrapper.rs)    *)
(*   - the WASM entry render_form  (wasm-wrapper/src/lib.rs)               *)
(*                                                                         *)
(* The transpiler's markup, which the code builds and inspects character   *)
(* by character, is a sequence of one-character strings.  Every other      *)
(* text (memo keys and values, field paths, asset and package paths,       *)
(* messages) is a TLA+ string.                                             *)
(***************************************************************************)
EXTENDS Integers, Sequences, FiniteSets, Bags, TLC

VARIABLES
    \* ---- DeltaParser::parse / convert_json_to_typst
    delta_json,     \* the argument of parse: the JSON text, as what it parses to
    d_pc,           \* "start" | "loop" | "done"
    d_i,            \* number of operations of `ops` already consumed
    result,         \* local `result`
    current_line,   \* local `current_line`
    in_list,        \* local `in_list`
    d_out,          \* the value parse returned (NoOutcome before it returns)
    list_stack,     \* field DeltaParser::list_stack
    \* ---- DeltaParser::apply_text_formatting called on its own
    f_text, f_attributes, f_pc, f_out,
    \* ---- MemoValidator::validate_memo
    memo,           \* the argument `data`: the memo object, a map from keys to values
    v_pc,           \* "call" | "done" | "done2"
    v_out,          \* the ValidationResult of validate_memo(memo)
    memo2,          \* a second memo, `memo` with one key changed
    v_out2,         \* the ValidationResult of validate_memo(memo2)
    \* ---- MemoValidator::apply_defaults
    json_input,     \* the argument: a JSON text
    a_pc,           \* "call" | "done" | "done2"
    a_out,          \* what apply_defaults(json_input) returned
    a_out2,         \* what apply_defaults of that output returned
    \* ---- assets::resolve_binary_asset
    r_path,         \* the argument `path`: the requested path
    unvisited,      \* the registry keys the iteration has not yielded yet
    r_pc,           \* "iter" | "done"
    r_out,          \* the Option returned
    \* ---- assets::resolve_package_file
    p_spec,         \* the argument `spec`: a PackageSpec
    p_path,         \* the argument `path`
    p_pc,           \* "call" | "done"
    p_out,          \* the Option returned
    \* ---- the LazyLock statics STRING_ASSET_REGISTRY and BINARY_ASSET_REGISTRY
    lock,           \* per registry: "incomplete" | "running" | "complete"
    table,          \* per registry: the HashMap the LazyLock holds once complete
    building,       \* per registry: local `assets` of the running initializer
    init_count,     \* per registry: how many times the initializer was entered
    t_pc,           \* per caller: "idle" | "force" | "init" | "read"
    t_reg,          \* per caller: the registry its call dereferences
    t_key,          \* per caller: the argument `key` of its call
    t_left,         \* per caller: calls it has still to make
    observed,       \* every <<registry, key, result>> a call has returned
    \* ---- form_processor::process_content_json / process_content
    c_json,         \* the argument `json`: a JSON text, as what it parses to
    c_pc,           \* "call" | "parsing" | "done"
    c_out,          \* the Result returned
    \* ---- form_processor::preprocess_form_json
    q_json,         \* the argument `form_json`: a JSON text
    q_pc,           \* "call" | "parsing" | "done"
    q_out,          \* the Result returned
    \* ---- typst_wrapper::TypstWorld
    w_sources,          \* field `sources`: a map from FileId to Source
    w_package_sources,  \* field `package_sources`
    w_pc,               \* "new" | "compiling"
    w_id,               \* the argument `id` of the last call of source
    w_out,              \* the FileResult that call returned
    s_json,             \* validate_official_memo_schema: the form JSON text
    s_pc,               \* "idle", "call" or "done"
    s_out,              \* the Result of the call
    o_format,           \* wasm render_form: the format argument, an Option<String>
    o_pc,               \* "idle", "call" or "done"
    o_config,           \* the RenderConfig handed to the engine
    o_out,              \* the Result of the call
    k_parsers,          \* concurrent parse calls: the DeltaParser values, by name
    k_frames,           \* each thread's call of parse: its arguments, locals and position
    k_left,             \* the calls each thread has still to make
    k_returns,          \* the calls that returned: <<delta_json, Result>>
    g_json,             \* TypstWrapper::render_form: the JSON input
    g_timestamp,        \* the number that makes the file names of this render unique
    g_sources,          \* the world's `sources` map
    g_pc,               \* "idle", "new", "compiling", "main" or "failed"
    g_main              \* what World::main returned

d_vars == <<delta_json, d_pc, d_i, result, current_line, in_list, d_out, list_stack>>
f_vars == <<f_text, f_attributes, f_pc, f_out>>
v_vars == <<memo, v_pc, v_out, memo2, v_out2>>
a_vars == <<json_input, a_pc, a_out, a_out2>>
r_vars == <<r_path, unvisited, r_pc, r_out>>
p_vars == <<p_spec, p_path, p_pc, p_out>>
l_vars == <<lock, table, building, init_count, t_pc, t_reg, t_key, t_left, observed>>
c_vars == <<c_json, c_pc, c_out>>
q_vars == <<q_json, q_pc, q_out>>
w_vars == <<w_sources, w_package_sources, w_pc, w_id, w_out>>
s_vars == <<s_json, s_pc, s_out>>
o_vars == <<o_format, o_pc, o_config, o_out>>
k_vars == <<k_parsers, k_frames, k_left, k_returns>>
g_vars == <<g_json, g_timestamp, g_sources, g_pc, g_main>>
vars == <<d_vars, f_vars, v_vars, a_vars, r_vars, p_vars, l_vars, c_vars, q_vars, w_vars, s_vars, o_vars, k_vars, g_vars>>

\* what the actions of one component leave alone
other_than_d == <<f_vars, v_vars, a_vars, r_vars, p_vars, l_vars, c_vars, q_vars, w_vars, s_vars, o_vars, k_vars, g_vars>>
other_than_f == <<d_vars, v_vars, a_vars, r_vars, p_vars, l_vars, c_vars, q_vars, w_vars, s_vars, o_vars, k_vars, g_vars>>
other_than_v == <<d_vars, f_vars, a_vars, r_vars, p_vars, l_vars, c_vars, q_vars, w_vars, s_vars, o_vars, k_vars, g_vars>>
other_than_a == <<d_vars, f_vars, v_vars, r_vars, p_vars, l_vars, c_vars, q_vars, w_vars, s_vars, o_vars, k_vars, g_vars>>
other_than_r == <<d_vars, f_vars, v_vars, a_vars, p_vars, l_vars, c_vars, q_vars, w_vars, s_vars, o_vars, k_vars, g_vars>>
other_than_p == <<d_vars, f_vars, v_vars, a_vars, r_vars, l_vars, c_vars, q_vars, w_vars, s_vars, o_vars, k_vars, g_vars>>
other_than_l == <<d_vars, f_vars, v_vars, a_vars, r_vars, p_vars, c_vars, q_vars, w_vars, s_vars, o_vars, k_vars, g_vars>>
other_than_c == <<d_vars, f_vars, v_vars, a_vars, r_vars, p_vars, l_vars, q_vars, w_vars, s_vars, o_vars, k_vars, g_vars>>
other_than_q == <<d_vars, f_vars, v_vars, a_vars, r_vars, p_vars, l_vars, c_vars, w_vars, s_vars, o_vars, k_vars, g_vars>>
other_than_w == <<d_vars, f_vars, v_vars, a_vars, r_vars, p_vars, l_vars, c_vars, q_vars, s_vars, o_vars, k_vars, g_vars>>
other_than_s == <<d_vars, f_vars, v_vars, a_vars, r_vars, p_vars, l_vars, c_vars, q_vars, w_vars, o_vars, k_vars, g_vars>>
other_than_o == <<d_vars, f_vars, v_vars, a_vars, r_vars, p_vars, l_vars, c_vars, q_vars, w_vars, s_vars, k_vars, g_vars>>
other_than_k == <<d_vars, f_vars, v_vars, a_vars, r_vars, p_vars, l_vars, c_vars, q_vars, w_vars, s_vars, o_vars, g_vars>>
other_than_g == <<d_vars, f_vars, v_vars, a_vars, r_vars, p_vars, l_vars, c_vars, q_vars, w_vars, s_vars, o_vars, k_vars>>
other_than_c_d == <<f_vars, v_vars, a_vars, r_vars, p_vars, l_vars, q_vars, w_vars, s_vars, o_vars, k_vars, g_vars>>
other_than_q_d == <<f_vars, v_vars, a_vars, r_vars, p_vars, l_vars, c_vars, w_vars, s_vars, o_vars, k_vars, g_vars>>

---------------------------------------------------------------------------
(* serde_json::Value *)

Null == [t |-> "null"]
Bool(b) == [t |-> "bool", b |-> b]
Num(n) == [t |-> "num", n |-> n]
Str(s) == [t |-> "str", s |-> s]
Arr(a) == [t |-> "arr", a |-> a]
Obj(o) == [t |-> "obj", o |-> o]

\* Option<T>
None == [some |-> FALSE]
Some(v) == [some |-> TRUE, v |-> v]

\* Value::get(key): a member of an object, None for anything else
Get(v, k) == IF v.t = "obj" /\ k \in DOMAIN v.o THEN Some(v.o[k]) ELSE None

\* Value::index(key), as in json_value["ops"]: Null where get gives None
Index(v, k) == IF Get(v, k).some THEN Get(v, k).v ELSE Null

as_bool(v) == IF v.t = "bool" THEN Some(v.b) ELSE None
as_u64(v) == IF v.t = "num" /\ v.n >= 0 THEN Some(v.n) ELSE None
as_str(v) == IF v.t = "str" THEN Some(v.s) ELSE None
as_object(v) == IF v.t = "obj" THEN Some(v.o) ELSE None
as_array(v) == IF v.t = "arr" THEN Some(v.a) ELSE None

\* Option::unwrap_or
unwrap_or(opt, d) == IF opt.some THEN opt.v ELSE d

\* Option::and_then with each of the conversions above
and_then_as_bool(opt) == IF opt.some THEN as_bool(opt.v) ELSE None
and_then_as_u64(opt) == IF opt.some THEN as_u64(opt.v) ELSE None
and_then_as_str(opt) == IF opt.some THEN as_str(opt.v) ELSE None
and_then_as_object(opt) == IF opt.some THEN as_object(opt.v) ELSE None

\* attrs.get(key), attrs a HashMap<String, Value>
MapGet(m, k) == IF k \in DOMAIN m THEN Some(m[k]) ELSE None

---------------------------------------------------------------------------
(* Character strings *)

NL == "\n"

RECURSIVE Repeat(_, _)
\* str::repeat
Repeat(s, n) == IF n = 0 THEN <<>> ELSE s \o Repeat(s, n - 1)

\* char::is_whitespace, over the characters the model's texts are made of
IsWhitespace(c) == c \in {" ", NL}

RECURSIVE trim_end(_)
\* str::trim_end
trim_end(s) ==
    IF s # <<>> /\ IsWhitespace(s[Len(s)])
    THEN trim_end(SubSeq(s, 1, Len(s) - 1))
    ELSE s

\* str::ends_with
EndsWith(s, suffix) ==
    /\ Len(suffix) <= Len(s)
    /\ SubSeq(s, Len(s) - Len(suffix) + 1, Len(s)) = suffix

---------------------------------------------------------------------------
(* delta_parser.rs: the pure helpers of DeltaParser *)

\* Result<String, ParserError>
Ok(markup) == [ok |-> TRUE, markup |-> markup]
Err(kind) == [ok |-> FALSE, err |-> kind]
NoOutcome == [ok |-> FALSE, err |-> "none"]

\* the `attributes` local of convert_json_to_typst: Some(map) only for an object
OpAttributes(op) == and_then_as_object(Get(op, "attributes"))

\* attrs.get(key).and_then(|v| v.as_bool()).unwrap_or(false)
Flag(attrs, key) == unwrap_or(and_then_as_bool(MapGet(attrs, key)), FALSE)

UnderlineOpen == <<"#", "u", "n", "d", "e", "r", "l", "i", "n", "e", "[">>
StrikeOpen == <<"#", "s", "t", "r", "i", "k", "e", "[">>
ImageOpen == <<"#", "i", "m", "a", "g", "e", "(", "\"">>
ImageClose == <<"\"", ")">>
\* the backquote character (U+0060), which a TLA+ string literal cannot hold
Backquote == "BACKQUOTE"
Fence == <<Backquote, Backquote, Backquote>>
BulletStr == <<"b", "u", "l", "l", "e", "t">>
OrderedStr == <<"o", "r", "d", "e", "r", "e", "d">>

\* the five format! wrappers of apply_text_formatting
WrapBold(s) == <<"*">> \o s \o <<"*">>
WrapItalic(s) == <<"_">> \o s \o <<"_">>
WrapUnderline(s) == UnderlineOpen \o s \o <<"]">>
WrapStrike(s) == StrikeOpen \o s \o <<"]">>
WrapCode(s) == <<Backquote>> \o s \o <<Backquote>>

\* apply_text_formatting with the italic wrapper applied before the bold one
apply_text_formatting_italic_first(text, attributes) ==
    IF ~attributes.some THEN text
    ELSE
    LET attrs == attributes.v
        f1 == IF Flag(attrs, "italic") THEN WrapItalic(text) ELSE text
        f2 == IF Flag(attrs, "bold") THEN WrapBold(f1) ELSE f1
        f3 == IF Flag(attrs, "underline") THEN WrapUnderline(f2) ELSE f2
        f4 == IF Flag(attrs, "strike") THEN WrapStrike(f3) ELSE f3
        f5 == IF Flag(attrs, "code") THEN WrapCode(f4) ELSE f4
    IN  f5

\* apply_text_formatting; `attributes` is an Option<HashMap>. It never fails.
apply_text_formatting(text, attributes) ==
    IF ~attributes.some THEN text
    ELSE
    LET attrs == attributes.v
        f1 == IF Flag(attrs, "bold") THEN WrapBold(text) ELSE text
        f2 == IF Flag(attrs, "italic") THEN WrapItalic(f1) ELSE f1
        f3 == IF Flag(attrs, "underline") THEN WrapUnderline(f2) ELSE f2
        f4 == IF Flag(attrs, "strike") THEN WrapStrike(f3) ELSE f3
        f5 == IF Flag(attrs, "code") THEN WrapCode(f4) ELSE f4
    IN  f5

\* handle_line_formatting; it never fails.
handle_line_formatting(text, attributes) ==
    LET header_level == and_then_as_u64(MapGet(attributes, "header"))
        r1 == IF header_level.some
              THEN Repeat(<<"=">>, header_level.v) \o <<" ">> \o text
              ELSE text
        r2 == IF Flag(attributes, "blockquote") THEN <<">", " ">> \o r1 ELSE r1
        r3 == IF Flag(attributes, "code-block")
              THEN Fence \o <<NL>> \o r2 \o <<NL>> \o Fence
              ELSE r2
    IN  r3

\* extract_list_info: Option<ListInfo>
extract_list_info(attributes) ==
    IF "list" \in DOMAIN attributes
    THEN LET indent_level == unwrap_or(and_then_as_u64(MapGet(attributes, "indent")), 0)
             list_type == as_str(attributes["list"])
         IN  IF ~list_type.some THEN None
             ELSE IF list_type.v = BulletStr
                  THEN Some([list_type |-> "Bullet", indent_level |-> indent_level])
             ELSE IF list_type.v = OrderedStr
                  THEN Some([list_type |-> "Ordered", indent_level |-> indent_level])
             ELSE None
    ELSE None

\* format_list_item with one space for each level of indent
format_list_item_one_space(text, list_info) ==
    LET marker == IF list_info.list_type = "Bullet" THEN <<"-">> ELSE <<"+">>
        indent == Repeat(<<" ">>, list_info.indent_level)
    IN  indent \o marker \o <<" ">> \o text \o <<NL>>

\* format_list_item; it never fails.
format_list_item(text, list_info) ==
    LET marker == IF list_info.list_type = "Bullet" THEN <<"-">> ELSE <<"+">>
        indent == Repeat(<<" ", " ">>, list_info.indent_level)
    IN  indent \o marker \o <<" ">> \o text \o <<NL>>

\* handle_embed: Result<String, ParserError>
handle_embed(embed) ==
    LET image_url == and_then_as_str(MapGet(embed, "image"))
    IN  IF image_url.some
        THEN Ok(ImageOpen \o image_url.v \o ImageClose)
        ELSE Err("UnsupportedOperation")

---------------------------------------------------------------------------
(* delta_parser.rs: DeltaParser::parse, one action per arm of the loop body *)

\* the argument of parse, by what serde_json::from_str makes of it
Unparseable == [parses |-> FALSE]
Parsed(v) == [parses |-> TRUE, value |-> v]

\* json_value["ops"].as_array()
OpsOf(json_value) == as_array(Index(json_value, "ops"))

Ops == OpsOf(delta_json.value).v
op == Ops[d_i + 1]
InLoop == d_pc = "loop" /\ d_i < Len(Ops)
HasInsert == Get(op, "insert").some
insert == Get(op, "insert").v

Return(outcome) ==
    /\ d_out' = outcome
    /\ d_pc' = "done"

\* serde_json::from_str(delta_json)? fails
ParseJsonError ==
    /\ d_pc = "start"
    /\ ~delta_json.parses
    /\ Return(Err("JsonError"))
    /\ UNCHANGED <<delta_json, d_i, result, current_line, in_list, list_stack>>
    /\ UNCHANGED other_than_d

\* json_value["ops"] is not an array
MissingOps ==
    /\ d_pc = "start"
    /\ delta_json.parses
    /\ ~OpsOf(delta_json.value).some
    /\ Return(Err("InvalidFormat"))
    /\ UNCHANGED <<delta_json, d_i, result, current_line, in_list, list_stack>>
    /\ UNCHANGED other_than_d

EnterLoop ==
    /\ d_pc = "start"
    /\ delta_json.parses
    /\ OpsOf(delta_json.value).some
    /\ d_pc' = "loop"
    /\ d_i' = 0
    /\ result' = <<>>
    /\ current_line' = <<>>
    /\ in_list' = FALSE
    /\ UNCHANGED <<delta_json, d_out, list_stack>>
    /\ UNCHANGED other_than_d

\* insert is "\n" and the operation has an attributes object
NewlineWithAttributes ==
    /\ InLoop
    /\ HasInsert
    /\ insert = Str(<<NL>>)
    /\ OpAttributes(op).some
    /\ LET attrs == OpAttributes(op).v
           formatted_line == handle_line_formatting(current_line, attrs)
           list_info == extract_list_info(attrs)
           closed == IF in_list THEN result \o <<NL>> ELSE result
           line == IF formatted_line = <<>> /\ current_line # <<>>
                   THEN current_line
                   ELSE formatted_line
           break == IF current_line # <<>> \/ formatted_line # <<>>
                    THEN <<NL>>
                    ELSE <<>>
       IN  IF list_info.some
           THEN /\ result' = result \o format_list_item(current_line, list_info.v)
                /\ in_list' = TRUE
           ELSE /\ result' = closed \o line \o break
                /\ in_list' = FALSE
    /\ current_line' = <<>>
    /\ d_i' = d_i + 1
    /\ UNCHANGED <<delta_json, d_pc, d_out, list_stack>>
    /\ UNCHANGED other_than_d

\* NewlinePlain that neither ends the list nor clears in_list
NewlinePlainKeepingList ==
    /\ InLoop
    /\ HasInsert
    /\ insert = Str(<<NL>>)
    /\ ~OpAttributes(op).some
    /\ result' = IF current_line # <<>>
                 THEN result \o current_line \o <<NL>>
                 ELSE result \o <<NL>>
    /\ current_line' = <<>>
    /\ d_i' = d_i + 1
    /\ UNCHANGED <<delta_json, d_pc, d_out, list_stack, in_list>>
    /\ UNCHANGED other_than_d

\* insert is "\n" and the operation has no attributes object
NewlinePlain ==
    /\ InLoop
    /\ HasInsert
    /\ insert = Str(<<NL>>)
    /\ ~OpAttributes(op).some
    /\ LET closed == IF in_list THEN result \o <<NL>> ELSE result
       IN  result' = IF current_line # <<>>
                     THEN closed \o current_line \o <<NL>>
                     ELSE closed \o <<NL>>
    /\ in_list' = FALSE
    /\ current_line' = <<>>
    /\ d_i' = d_i + 1
    /\ UNCHANGED <<delta_json, d_pc, d_out, list_stack>>
    /\ UNCHANGED other_than_d

\* insert is any other string
TextInsert ==
    /\ InLoop
    /\ HasInsert
    /\ insert.t = "str"
    /\ insert # Str(<<NL>>)
    /\ current_line' = current_line \o apply_text_formatting(insert.s, OpAttributes(op))
    /\ d_i' = d_i + 1
    /\ UNCHANGED <<delta_json, d_pc, result, in_list, d_out, list_stack>>
    /\ UNCHANGED other_than_d

\* insert is an object
EmbedInsert ==
    /\ InLoop
    /\ HasInsert
    /\ insert.t = "obj"
    /\ LET embed_typst == handle_embed(insert.o)
       IN  IF embed_typst.ok
           THEN /\ current_line' = current_line \o embed_typst.markup
                /\ d_i' = d_i + 1
                /\ UNCHANGED <<d_pc, d_out>>
           ELSE /\ Return(embed_typst)
                /\ UNCHANGED <<current_line, d_i>>
    /\ UNCHANGED <<delta_json, result, in_list, list_stack>>
    /\ UNCHANGED other_than_d

\* insert is neither a string nor an object
InvalidInsert ==
    /\ InLoop
    /\ HasInsert
    /\ insert.t \notin {"str", "obj"}
    /\ Return(Err("InvalidFormat"))
    /\ UNCHANGED <<delta_json, d_i, result, current_line, in_list, list_stack>>
    /\ UNCHANGED other_than_d

RetainOp ==
    /\ InLoop
    /\ ~HasInsert
    /\ Get(op, "retain").some
    /\ Return(Err("UnsupportedOperation"))
    /\ UNCHANGED <<delta_json, d_i, result, current_line, in_list, list_stack>>
    /\ UNCHANGED other_than_d

DeleteOp ==
    /\ InLoop
    /\ ~HasInsert
    /\ ~Get(op, "retain").some
    /\ Get(op, "delete").some
    /\ Return(Err("UnsupportedOperation"))
    /\ UNCHANGED <<delta_json, d_i, result, current_line, in_list, list_stack>>
    /\ UNCHANGED other_than_d

\* an operation with none of the three keys falls through the if chain
SkipOp ==
    /\ InLoop
    /\ ~HasInsert
    /\ ~Get(op, "retain").some
    /\ ~Get(op, "delete").some
    /\ d_i' = d_i + 1
    /\ UNCHANGED <<delta_json, d_pc, result, current_line, in_list, d_out, list_stack>>
    /\ UNCHANGED other_than_d

\* after the loop: flush the pending line, trim, return
Finish ==
    /\ d_pc = "loop"
    /\ d_i = Len(Ops)
    /\ result' = IF current_line # <<>> THEN result \o current_line ELSE result
    /\ Return(Ok(trim_end(result')))
    /\ UNCHANGED <<delta_json, d_i, current_line, in_list, list_stack>>
    /\ UNCHANGED other_than_d

---------------------------------------------------------------------------
(* form_validation.rs: MemoSchema and MemoValidator.  Vec<ValidationError> is *)
(* a bag: the validator walks HashMaps, whose iteration order is unspecified, *)
(* and the order of the list means nothing to a caller.                       *)

\* ValidationError::new
ValidationError(field_path, message) == [field_path |-> field_path, message |-> message]

\* ValidationRule
RuleType(expected) == [rule |-> "Type", expected |-> expected]
RuleArrayItems(expected) == [rule |-> "ArrayItems", expected |-> expected]
RuleStringLength(min) == [rule |-> "StringLength", min |-> min]
RuleArrayLength(min) == [rule |-> "ArrayLength", min |-> min]
RuleNullableArray == [rule |-> "NullableArray"]
RuleEnum(allowed) == [rule |-> "Enum", allowed |-> allowed]

\* MemoSchema::official_memorandum
official_memorandum ==
    [ allowed_properties |->
          <<"memo-for", "from-block", "subject", "references", "signature-block", "body">>,
      required_properties |->
          <<"memo-for", "from-block", "subject", "signature-block", "body">>,
      properties |->
          "memo-for" :> <<RuleType("Array"), RuleArrayLength(1), RuleArrayItems("String")>>
       @@ "from-block" :> <<RuleType("Array"), RuleArrayLength(1), RuleArrayItems("String")>>
       @@ "subject" :> <<RuleType("String"), RuleStringLength(1)>>
       @@ "references" :> <<RuleNullableArray>>
       @@ "signature-block" :> <<RuleType("Array"), RuleArrayLength(2), RuleArrayItems("String")>>
       @@ "body" :> <<RuleType("Object")>>,
      body_schema |->
          [ allowed_properties |-> <<"format", "data">>,
            properties |->
                "format" :> <<RuleType("String"), RuleEnum(<<"plaintext">>)>>
             @@ "data" :> <<RuleType("String")>> ] ]

\* MemoValidator::new: the validator's field `schema`
schema == official_memorandum

\* Vec::contains
Contains(seq, x) == \E i \in 1..Len(seq) : seq[i] = x

RECURSIVE Join(_, _)
\* [String]::join
Join(seq, sep) ==
    IF seq = <<>> THEN ""
    ELSE IF Len(seq) = 1 THEN seq[1]
    ELSE seq[1] \o sep \o Join(Tail(seq), sep)

RECURSIVE BagOfSet(_, _)
\* the sum of the bags F[x] for x in S: what a loop over S appends in all
BagOfSet(S, F) ==
    IF S = {} THEN EmptyBag
    ELSE LET x == CHOOSE y \in S : TRUE
         IN  F[x] (+) BagOfSet(S \ {x}, F)

\* the ValueType of a value, printed with {:?}
ValueTypeOf(value) ==
    CASE value.t = "str" -> "String"
      [] value.t = "arr" -> "Array"
      [] value.t = "obj" -> "Object"
      [] value.t = "num" -> "Number"
      [] value.t = "bool" -> "Boolean"
      [] value.t = "null" -> "Null"

\* one error, as the Err(vec![..]) of the single-error validators
OneError(field_path, message) == SetToBag({ValidationError(field_path, message)})

validate_type(value, expected_type, path) ==
    IF ValueTypeOf(value) # expected_type
    THEN OneError(path, "Property '" \o path \o "' must be " \o expected_type
                            \o " (got " \o ValueTypeOf(value) \o ")")
    ELSE EmptyBag

\* one error for each item that is not of the expected type
validate_array_items(arr, expected_type, path) ==
    BagOfSet(1..Len(arr),
        [i \in 1..Len(arr) |->
            IF ValueTypeOf(arr[i]) # expected_type
            THEN OneError(path, "All items in '" \o path \o "' array must be " \o expected_type
                                    \o " (item " \o ToString(i - 1) \o " is "
                                    \o ValueTypeOf(arr[i]) \o ")")
            ELSE EmptyBag])

validate_string_length(value, min_length, path) ==
    IF Len(value) < min_length
    THEN OneError(path, "Property '" \o path \o "' cannot be empty (minLength: "
                            \o ToString(min_length) \o ")")
    ELSE EmptyBag

\* validate_array_length that also rejects an array of exactly min_items items
validate_array_length_strict(arr, min_items, path) ==
    IF Len(arr) <= min_items
    THEN OneError(path, "Property '" \o path \o "' must contain at least "
                            \o ToString(min_items) \o " item"
                            \o (IF min_items > 1 THEN "s" ELSE ""))
    ELSE EmptyBag

validate_array_length(arr, min_items, path) ==
    IF Len(arr) < min_items
    THEN OneError(path, "Property '" \o path \o "' must contain at least "
                            \o ToString(min_items) \o " item"
                            \o (IF min_items > 1 THEN "s" ELSE ""))
    ELSE EmptyBag

validate_nullable_array(value, path) ==
    IF value.t \in {"null", "arr"}
    THEN EmptyBag
    ELSE OneError(path, "Property '" \o path \o "' must be an array or null")

validate_enum(value, allowed_values, path) ==
    IF Contains(allowed_values, value)
    THEN EmptyBag
    ELSE OneError(path, "Property '" \o path \o "' must be one of: "
                            \o Join(allowed_values, ", ") \o " (got '" \o value \o "')")

\* one arm of the match in validate_property
validate_rule(value, r, path) ==
    CASE r.rule = "Type" -> validate_type(value, r.expected, path)
      [] r.rule = "ArrayItems" ->
            IF value.t = "arr" THEN validate_array_items(value.a, r.expected, path) ELSE EmptyBag
      [] r.rule = "StringLength" ->
            IF value.t = "str" THEN validate_string_length(value.s, r.min, path) ELSE EmptyBag
      [] r.rule = "ArrayLength" ->
            IF value.t = "arr" THEN validate_array_length(value.a, r.min, path) ELSE EmptyBag
      [] r.rule = "NullableArray" -> validate_nullable_array(value, path)
      [] r.rule = "Enum" ->
            IF value.t = "str" THEN validate_enum(value.s, r.allowed, path) ELSE EmptyBag

\* validate_property: every rule of the list is applied
validate_property(value, rules, path) ==
    BagOfSet(1..Len(rules), [i \in 1..Len(rules) |-> validate_rule(value, rules[i], path)])

\* validate_body, `body` the map of the body object
validate_body(body) ==
    LET unexpected ==
            BagOfSet(DOMAIN body,
                [key \in DOMAIN body |->
                    IF ~Contains(schema.body_schema.allowed_properties, key)
                    THEN OneError("body." \o key,
                             "Unexpected property in body: '" \o key
                                 \o "'. Allowed properties: "
                                 \o Join(schema.body_schema.allowed_properties, ", "))
                    ELSE EmptyBag])
        props == DOMAIN schema.body_schema.properties
        properties ==
            BagOfSet(props,
                [prop_name \in props |->
                    IF prop_name \in DOMAIN body
                    THEN validate_property(body[prop_name],
                             schema.body_schema.properties[prop_name], "body." \o prop_name)
                    ELSE EmptyBag])
    IN  unexpected (+) properties

\* the keys of a memo the schema does not allow
UnexpectedKeys(data) == {key \in DOMAIN data : ~Contains(schema.allowed_properties, key)}

\* check_unexpected that stops at the first unexpected key
check_unexpected_first_only(data) ==
    IF UnexpectedKeys(data) = {} THEN EmptyBag
    ELSE LET key == CHOOSE k \in UnexpectedKeys(data) : TRUE
         IN  OneError(key, "Unexpected property '" \o key \o "'. Allowed properties: "
                               \o Join(schema.allowed_properties, ", "))

\* the five passes of validate_memo, `data` the map of the memo object
check_unexpected(data) ==
    BagOfSet(DOMAIN data,
        [key \in DOMAIN data |->
            IF ~Contains(schema.allowed_properties, key)
            THEN OneError(key, "Unexpected property '" \o key \o "'. Allowed properties: "
                                   \o Join(schema.allowed_properties, ", "))
            ELSE EmptyBag])

\* check_required that stops at the first missing property
check_required_first_only(data) ==
    LET missing == {i \in 1..Len(schema.required_properties) :
                        schema.required_properties[i] \notin DOMAIN data}
    IN  IF missing = {} THEN EmptyBag
        ELSE LET first == CHOOSE i \in missing : \A j \in missing : i <= j
                 required_prop == schema.required_properties[first]
             IN  OneError(required_prop,
                     "Required property '" \o required_prop \o "' is missing")

check_required(data) ==
    BagOfSet(1..Len(schema.required_properties),
        [i \in 1..Len(schema.required_properties) |->
            LET required_prop == schema.required_properties[i]
            IN  IF required_prop \notin DOMAIN data
                THEN OneError(required_prop,
                         "Required property '" \o required_prop \o "' is missing")
                ELSE EmptyBag])

check_properties(data) ==
    BagOfSet(DOMAIN schema.properties,
        [prop_name \in DOMAIN schema.properties |->
            IF prop_name \in DOMAIN data
            THEN validate_property(data[prop_name], schema.properties[prop_name], prop_name)
            ELSE EmptyBag])

\* validate_memo without the pass over the items of references
check_references_skipped(data) == EmptyBag

check_references(data) ==
    IF "references" \in DOMAIN data /\ data["references"].t = "arr"
    THEN validate_array_items(data["references"].a, "String", "references")
    ELSE EmptyBag

\* validate_memo without the nested check of the body
check_body_skipped(data) == EmptyBag

check_body(data) ==
    IF "body" \in DOMAIN data /\ data["body"].t = "obj"
    THEN validate_body(data["body"].o)
    ELSE EmptyBag

\* validate_memo that returns at the first pass that found an error
validate_memo_short_circuit(data) ==
    IF check_unexpected(data) # EmptyBag THEN check_unexpected(data)
    ELSE IF check_required(data) # EmptyBag THEN check_required(data)
    ELSE IF check_properties(data) # EmptyBag THEN check_properties(data)
    ELSE IF check_references(data) # EmptyBag THEN check_references(data)
    ELSE check_body(data)

\* validate_memo: the errors vector; the call returns Ok(()) when it is empty
validate_memo(data) ==
    check_unexpected(data) (+) check_required(data) (+) check_properties(data)
        (+) check_references(data) (+) check_body(data)

---------------------------------------------------------------------------
(* form_validation.rs: MemoValidator::apply_defaults, a function from JSON    *)
(* text to JSON text.  A text is its layout and its tree; an object of the    *)
(* tree is the sequence of its members as written, in their order and with    *)
(* their repetitions.  A Value holds a map instead (serde_json's Map, by      *)
(* default a BTreeMap): parsing keeps the last member of each key, printing   *)
(* writes the members in the order of their keys.                             *)

TextObj(members) == [t |-> "tobj", members |-> members]
Member(key, value) == [key |-> key, value |-> value]
JsonText(layout, tree) == [parses |-> TRUE, layout |-> layout, tree |-> tree]

\* the keys of the model's texts in String's order, the order of a BTreeMap
KeyOrder ==
    <<"body", "body.extra", "body_raw", "data", "extra", "format", "from-block", "memo-for",
      "references", "signature-block", "subject">>

RECURSIVE from_tree(_)
\* the Value of a tree
from_tree(tree) ==
    IF tree.t = "tobj"
    THEN LET keys == {tree.members[i].key : i \in 1..Len(tree.members)}
             last(k) == CHOOSE i \in 1..Len(tree.members) :
                            /\ tree.members[i].key = k
                            /\ \A j \in (i + 1)..Len(tree.members) : tree.members[j].key # k
         IN  Obj([k \in keys |-> from_tree(tree.members[last(k)].value)])
    ELSE tree

\* serde_json::from_str
from_str(text) == IF text.parses THEN Parsed(from_tree(text.tree)) ELSE Unparseable

RECURSIVE MembersFrom(_, _)
RECURSIVE to_tree(_)
\* the members of a map whose keys are at position i or later of KeyOrder
MembersFrom(o, i) ==
    IF i > Len(KeyOrder) THEN <<>>
    ELSE (IF KeyOrder[i] \in DOMAIN o
          THEN <<Member(KeyOrder[i], to_tree(o[KeyOrder[i]]))>>
          ELSE <<>>) \o MembersFrom(o, i + 1)

\* the tree a Value is printed as
to_tree(value) ==
    IF value.t = "obj" THEN TextObj(MembersFrom(value.o, 1)) ELSE value

\* serde_json::to_string_pretty
to_string_pretty(value) == JsonText("pretty", to_tree(value))

\* the map with a key set, as Map::insert
MapInsert(m, key, value) == (key :> value) @@ m

\* defaults_applied that sets references whether or not the key is present
defaults_applied_overwriting(value) ==
    IF value.t # "obj" THEN value
    ELSE LET obj1 == MapInsert(value.o, "references", Null)
             obj2 == IF "body" \in DOMAIN obj1 /\ obj1["body"].t = "obj"
                        /\ "format" \notin DOMAIN obj1["body"].o
                     THEN MapInsert(obj1, "body",
                              Obj(MapInsert(obj1["body"].o, "format", Str("plaintext"))))
                     ELSE obj1
         IN  Obj(obj2)

\* defaults_applied that also gives a memo without body an empty one, after
\* the format default has been dealt with
defaults_applied_body_last(value) ==
    IF value.t # "obj" THEN value
    ELSE LET obj1 == IF "references" \notin DOMAIN value.o
                     THEN MapInsert(value.o, "references", Null)
                     ELSE value.o
             obj2 == IF "body" \in DOMAIN obj1 /\ obj1["body"].t = "obj"
                        /\ "format" \notin DOMAIN obj1["body"].o
                     THEN MapInsert(obj1, "body",
                              Obj(MapInsert(obj1["body"].o, "format", Str("plaintext"))))
                     ELSE obj1
             obj3 == IF "body" \notin DOMAIN obj2
                     THEN MapInsert(obj2, "body", Obj(<<>>))
                     ELSE obj2
         IN  Obj(obj3)

\* defaults_applied with markup as the default format of the body
defaults_applied_markup(value) ==
    IF value.t # "obj" THEN value
    ELSE LET obj1 == IF "references" \notin DOMAIN value.o
                     THEN MapInsert(value.o, "references", Null)
                     ELSE value.o
             obj2 == IF "body" \in DOMAIN obj1 /\ obj1["body"].t = "obj"
                        /\ "format" \notin DOMAIN obj1["body"].o
                     THEN MapInsert(obj1, "body",
                              Obj(MapInsert(obj1["body"].o, "format", Str("markup"))))
                     ELSE obj1
         IN  Obj(obj2)

\* the body of apply_defaults between parsing and printing
defaults_applied(value) ==
    IF value.t # "obj" THEN value
    ELSE LET obj1 == IF "references" \notin DOMAIN value.o
                     THEN MapInsert(value.o, "references", Null)
                     ELSE value.o
             obj2 == IF "body" \in DOMAIN obj1 /\ obj1["body"].t = "obj"
                        /\ "format" \notin DOMAIN obj1["body"].o
                     THEN MapInsert(obj1, "body",
                              Obj(MapInsert(obj1["body"].o, "format", Str("plaintext"))))
                     ELSE obj1
         IN  Obj(obj2)

\* apply_defaults: Result<String, serde_json::Error>
apply_defaults(text) ==
    IF ~from_str(text).parses THEN Err("JsonError")
    ELSE [ok |-> TRUE, json |-> to_string_pretty(defaults_applied(from_str(text).value))]

---------------------------------------------------------------------------
(* The documents the transpiler is run on *)

\* longest `ops` array
MaxOps == 3

SeqsUpTo(S, n) == UNION {[1..k -> S] : k \in 0..n}

Insert(v) == Obj("insert" :> v)
InsertWith(v, attrs) == Obj("insert" :> v @@ "attributes" :> Obj(attrs))

DeltaOpPool ==
    { Insert(Str(<<"a">>)),
      Insert(Str(<<" ">>)),
      InsertWith(Str(<<"b">>), "bold" :> Bool(TRUE)),
      Insert(Str(<<NL>>)),
      InsertWith(Str(<<NL>>), "list" :> Str(BulletStr)),
      InsertWith(Str(<<NL>>), "header" :> Num(1)),
      Insert(Obj("image" :> Str(<<"u">>))),
      Insert(Obj("video" :> Str(<<"u">>))),
      Insert(Num(1)),
      Obj("retain" :> Num(1)),
      Obj("delete" :> Num(1)),
      Obj("insert" :> Str(<<"a">>) @@ "retain" :> Num(1)),
      Obj("insert" :> Str(<<NL>>) @@ "delete" :> Num(1)),
      Obj(<<>>) }

DeltaInputs ==
    {Unparseable, Parsed(Num(1)), Parsed(Obj(<<>>)), Parsed(Obj("ops" :> Str(<<"a">>)))}
        \cup {Parsed(Obj("ops" :> Arr(s))) : s \in SeqsUpTo(DeltaOpPool, MaxOps)}

\* a parser from DeltaParser::new(), and a document handed to parse
DeltaInit ==
    /\ delta_json \in DeltaInputs
    /\ d_pc = "start"
    /\ d_i = 0
    /\ result = <<>>
    /\ current_line = <<>>
    /\ in_list = FALSE
    /\ d_out = NoOutcome
    /\ list_stack = <<>>

\* no parse in progress
DeltaIdle ==
    /\ delta_json = Unparseable
    /\ d_pc = "idle"
    /\ d_i = 0
    /\ result = <<>>
    /\ current_line = <<>>
    /\ in_list = FALSE
    /\ d_out = NoOutcome
    /\ list_stack = <<>>

DeltaNext ==
    \/ ParseJsonError
    \/ MissingOps
    \/ EnterLoop
    \/ NewlineWithAttributes
    \/ NewlinePlain
    \/ TextInsert
    \/ EmbedInsert
    \/ InvalidInsert
    \/ RetainOp
    \/ DeleteOp
    \/ SkipOp
    \/ Finish

---------------------------------------------------------------------------
(* apply_text_formatting on its own *)

InlineKeys == {"bold", "italic", "underline", "strike", "code"}

\* what an inline attribute may hold: true, false, or a value that is no boolean
InlineValues == {Bool(TRUE), Bool(FALSE), Str(<<"t">>)}

\* longest text run
MaxText == 2

FormatTexts == SeqsUpTo({"x", "*"}, MaxText)

\* every attribute map over the inline keys, and no attribute map at all
FormatAttributes ==
    {None} \cup
    {Some(m) : m \in UNION {[K -> InlineValues] : K \in SUBSET InlineKeys}}

FormatInit ==
    /\ f_text \in FormatTexts
    /\ f_attributes \in FormatAttributes
    /\ f_pc = "call"
    /\ f_out = <<>>

FormatIdle ==
    /\ f_text = <<>>
    /\ f_attributes = None
    /\ f_pc = "idle"
    /\ f_out = <<>>

ApplyTextFormatting ==
    /\ f_pc = "call"
    /\ f_out' = apply_text_formatting(f_text, f_attributes)
    /\ f_pc' = "done"
    /\ UNCHANGED <<f_text, f_attributes>>
    /\ UNCHANGED other_than_f

FormatNext == ApplyTextFormatting

---------------------------------------------------------------------------
(* The memos the validator is run on *)

\* longest array held by memo-for
MaxItems == 2

ItemPool == {Str("a"), Num(1)}

\* a memo that meets every rule of the schema
BaseMemo ==
    "memo-for" :> Arr(<<Str("a")>>)
 @@ "from-block" :> Arr(<<Str("a")>>)
 @@ "subject" :> Str("s")
 @@ "signature-block" :> Arr(<<Str("a"), Str("a")>>)
 @@ "body" :> Obj("format" :> Str("plaintext") @@ "data" :> Str("d"))

MemoKeys ==
    <<"memo-for", "from-block", "subject", "references", "signature-block", "body",
      "extra", "body.extra">>

\* the values each key is given; a key may also be absent
MemoValues(key) ==
    CASE key = "memo-for" ->
            {Arr(a) : a \in SeqsUpTo(ItemPool, MaxItems)} \cup {Str("a")}
      [] key = "from-block" -> {Arr(<<Str("a")>>), Arr(<<>>)}
      [] key = "subject" -> {Str("s"), Str(""), Num(1)}
      [] key = "references" ->
            {Null, Arr(<<>>), Arr(<<Str("a")>>), Arr(<<Num(1)>>), Str("a")}
      [] key = "signature-block" ->
            {Arr(<<Str("a"), Str("a")>>), Arr(<<Str("a")>>), Bool(TRUE)}
      [] key = "body" ->
            { Obj("format" :> Str("plaintext") @@ "data" :> Str("d")),
              Obj("data" :> Str("d")),
              Obj(<<>>),
              Obj("format" :> Str("markup") @@ "data" :> Str("d")),
              Obj("format" :> Num(1) @@ "data" :> Num(1)),
              Obj("format" :> Str("plaintext") @@ "data" :> Str("d") @@ "extra" :> Null),
              Str("d") }
      [] key = "extra" -> {Num(1)}
      [] key = "body.extra" -> {Null}

RECURSIVE MemosOver(_)
\* every memo over the keys of the list: each key absent or with one of its values
MemosOver(keys) ==
    IF keys = <<>> THEN {<<>>}
    ELSE LET rest == MemosOver(Tail(keys))
         IN  rest \cup {(Head(keys) :> v) @@ m : m \in rest, v \in MemoValues(Head(keys))}

MemoInputs == MemosOver(MemoKeys)

\* ValidationResult
ValidationOk == [ok |-> TRUE]
ValidationErr(errs) == [ok |-> FALSE, errors |-> errs]
NotValidated == [ok |-> FALSE, errors |-> EmptyBag]

\* the return of validate_memo
ValidationResult(errs) == IF errs = EmptyBag THEN ValidationOk ELSE ValidationErr(errs)

MemoInit ==
    /\ memo \in MemoInputs
    /\ v_pc = "call"
    /\ v_out = NotValidated
    /\ memo2 = memo
    /\ v_out2 = NotValidated

MemoIdle ==
    /\ memo = <<>>
    /\ v_pc = "idle"
    /\ v_out = NotValidated
    /\ memo2 = <<>>
    /\ v_out2 = NotValidated

ValidateMemo ==
    /\ v_pc = "call"
    /\ v_out' = ValidationResult(validate_memo(memo))
    /\ v_pc' = "done"
    /\ UNCHANGED <<memo, memo2, v_out2>>
    /\ UNCHANGED other_than_v

MemoNext == ValidateMemo

\* how many keys a memo may differ in from BaseMemo where a second memo is derived
MaxDeviations == 2

Deviations(m) == {i \in 1..Len(MemoKeys) : MapGet(m, MemoKeys[i]) # MapGet(BaseMemo, MemoKeys[i])}

NearBaseMemos == {m \in MemoInputs : Cardinality(Deviations(m)) <= MaxDeviations}

\* the map with a key removed
Without(m, key) == [k \in DOMAIN m \ {key} |-> m[k]]

MemoEditInit ==
    /\ memo \in NearBaseMemos
    /\ v_pc = "call"
    /\ v_out = NotValidated
    /\ memo2 = memo
    /\ v_out2 = NotValidated

\* a second call of validate_memo, on the memo with one key removed, added or
\* given another value
ValidateEdited ==
    /\ v_pc = "done"
    /\ \E i \in 1..Len(MemoKeys) :
          \E m \in {Without(memo, MemoKeys[i])}
                    \cup {(MemoKeys[i] :> v) @@ memo : v \in MemoValues(MemoKeys[i])} :
              /\ m # memo
              /\ memo2' = m
              /\ v_out2' = ValidationResult(validate_memo(m))
    /\ v_pc' = "done2"
    /\ UNCHANGED <<memo, v_out>>
    /\ UNCHANGED other_than_v

MemoEditNext == ValidateMemo \/ ValidateEdited

\* validate_json: the text is parsed, and a root that is no object is an error
validate_json(text) ==
    IF ~from_str(text).parses
    THEN ValidationErr(OneError("root", "Invalid JSON: "))
    ELSE IF from_str(text).value.t = "obj"
         THEN ValidationResult(validate_memo(from_str(text).value.o))
         ELSE ValidationErr(OneError("root", "Root must be a JSON object"))

\* the memo as a JSON text
MemoText(m) == JsonText("compact", to_tree(Obj(m)))

\* after validate_json of the memo: apply_defaults of the same text, and
\* validate_json of the text it returns
ValidateDefaulted ==
    /\ v_pc = "done"
    /\ LET defaulted == apply_defaults(MemoText(memo))
       IN  /\ defaulted.ok
           /\ memo2' = from_str(defaulted.json).value.o
           /\ v_out2' = validate_json(defaulted.json)
    /\ v_pc' = "done2"
    /\ UNCHANGED <<memo, v_out>>
    /\ UNCHANGED other_than_v

MemoDefaultsNext == ValidateMemo \/ ValidateDefaulted

---------------------------------------------------------------------------
(* assets.rs: the binary asset registry and resolve_binary_asset *)

\* content stands for the bytes include_bytes! reads; it is named by the
\* file they are read from
BinaryAsset(content, asset_path) == [content |-> content, path |-> asset_path]

BINARY_ASSET_REGISTRY ==
    ( "dod_seal.gif" :> BinaryAsset("../memo-loader/assets/dod_seal.gif",
                                    "memo-loader/assets/dod_seal.gif")
   @@ "arial.ttf" :> BinaryAsset("../memo-loader/assets/arial.ttf",
                                 "memo-loader/assets/arial.ttf")
   @@ "times.ttf" :> BinaryAsset("../memo-loader/assets/times.ttf",
                                 "memo-loader/assets/times.ttf")
   @@ "Times.ttc" :> BinaryAsset("../memo-loader/assets/Times.ttc",
                                 "memo-loader/assets/Times.ttc")
   @@ "CopperplateCC-Heavy.otf" :> BinaryAsset("../memo-loader/assets/CopperplateCC-Heavy.otf",
                                               "memo-loader/assets/CopperplateCC-Heavy.otf") )

\* s.split('/').last().unwrap_or(""): what follows the last '/' of s
SplitLast(s) ==
    LET slashes == {i \in 1..Len(s) : SubSeq(s, i, i) = "/"}
    IN  IF slashes = {} THEN s
        ELSE LET last == CHOOSE i \in slashes : \A j \in slashes : j <= i
             IN  SubSeq(s, last + 1, Len(s))

\* the relative match with the test of the file name only
relative_match_by_name_only(requested, asset) ==
    EndsWith(requested, SplitLast(asset.path))

\* the relative match with the test of the suffix only
relative_match_by_suffix_only(requested, asset) ==
    EndsWith(asset.path, requested)

\* the first test of the loop body
exact_match(requested, asset) == asset.path = requested

\* the second test of the loop body
relative_match(requested, asset) ==
    /\ EndsWith(requested, SplitLast(asset.path))
    /\ EndsWith(asset.path, requested)

\* the iteration yields an entry whose path is the requested one
VisitExact ==
    /\ r_pc = "iter"
    /\ \E key \in unvisited :
          /\ exact_match(r_path, BINARY_ASSET_REGISTRY[key])
          /\ r_out' = Some(BINARY_ASSET_REGISTRY[key].content)
    /\ r_pc' = "done"
    /\ UNCHANGED <<r_path, unvisited>>
    /\ UNCHANGED other_than_r

\* the iteration yields an entry that the requested path matches relatively
VisitRelative ==
    /\ r_pc = "iter"
    /\ \E key \in unvisited :
          /\ ~exact_match(r_path, BINARY_ASSET_REGISTRY[key])
          /\ relative_match(r_path, BINARY_ASSET_REGISTRY[key])
          /\ r_out' = Some(BINARY_ASSET_REGISTRY[key].content)
    /\ r_pc' = "done"
    /\ UNCHANGED <<r_path, unvisited>>
    /\ UNCHANGED other_than_r

\* the iteration yields an entry that matches in neither way
VisitOther ==
    /\ r_pc = "iter"
    /\ \E key \in unvisited :
          /\ ~exact_match(r_path, BINARY_ASSET_REGISTRY[key])
          /\ ~relative_match(r_path, BINARY_ASSET_REGISTRY[key])
          /\ unvisited' = unvisited \ {key}
    /\ UNCHANGED <<r_path, r_pc, r_out>>
    /\ UNCHANGED other_than_r

\* the iteration is over
ReturnNone ==
    /\ r_pc = "iter"
    /\ unvisited = {}
    /\ r_out' = None
    /\ r_pc' = "done"
    /\ UNCHANGED <<r_path, unvisited>>
    /\ UNCHANGED other_than_r

ResolveNext == VisitExact \/ VisitRelative \/ VisitOther \/ ReturnNone

---------------------------------------------------------------------------
(* The paths resolve_binary_asset is asked for *)

\* most characters put in front of a piece of a registered path
MaxPrefix == 1

RECURSIVE StringsUpTo(_, _)
StringsUpTo(chars, n) ==
    IF n = 0 THEN {""}
    ELSE LET shorter == StringsUpTo(chars, n - 1)
         IN  shorter \cup {c \o s : c \in chars, s \in shorter}

Suffixes(s) == {SubSeq(s, i, Len(s)) : i \in 1..(Len(s) + 1)}

RegisteredPaths == {BINARY_ASSET_REGISTRY[key].path : key \in DOMAIN BINARY_ASSET_REGISTRY}

\* every end of every registered path, as it is and with characters put
\* before and after it
RequestedPaths ==
    {before \o piece \o after :
        before \in StringsUpTo({"x", "/"}, MaxPrefix),
        piece \in UNION {Suffixes(p) : p \in RegisteredPaths},
        after \in {"", "/", "x"}}

ResolveInit ==
    /\ r_path \in RequestedPaths
    /\ unvisited = DOMAIN BINARY_ASSET_REGISTRY
    /\ r_pc = "iter"
    /\ r_out = None

ResolveIdle ==
    /\ r_path = ""
    /\ unvisited = {}
    /\ r_pc = "idle"
    /\ r_out = None

---------------------------------------------------------------------------
(* The texts apply_defaults is run on *)

\* most members written in the root object
MaxMembers == 3

DefaultsMemberPool ==
    { Member("references", Null),
      Member("references", Arr(<<Str("a")>>)),
      Member("subject", Str("s")),
      Member("body", Str("d")),
      Member("body", TextObj(<<>>)),
      Member("body", TextObj(<<Member("data", Str("d"))>>)),
      Member("body", TextObj(<<Member("format", Str("markup")), Member("data", Str("d"))>>)),
      Member("body", TextObj(<<Member("format", Null)>>)),
      Member("body", TextObj(<<Member("data", Str("d")), Member("data", Str("e"))>>)) }

DefaultsTrees ==
    {Null, Num(1), Str("s"), Arr(<<Str("a")>>)}
        \cup {TextObj(ms) : ms \in SeqsUpTo(DefaultsMemberPool, MaxMembers)}

DefaultsInputs ==
    {Unparseable} \cup {JsonText(layout, tree) : layout \in {"compact", "pretty"},
                                                 tree \in DefaultsTrees}

DefaultsInit ==
    /\ json_input \in DefaultsInputs
    /\ a_pc = "call"
    /\ a_out = NoOutcome
    /\ a_out2 = NoOutcome

DefaultsIdle ==
    /\ json_input = Unparseable
    /\ a_pc = "idle"
    /\ a_out = NoOutcome
    /\ a_out2 = NoOutcome

ApplyDefaults ==
    /\ a_pc = "call"
    /\ a_out' = apply_defaults(json_input)
    /\ a_pc' = "done"
    /\ UNCHANGED <<json_input, a_out2>>
    /\ UNCHANGED other_than_a

\* apply_defaults called on the text the first call returned
ApplyDefaultsAgain ==
    /\ a_pc = "done"
    /\ a_out.ok
    /\ a_out2' = apply_defaults(a_out.json)
    /\ a_pc' = "done2"
    /\ UNCHANGED <<json_input, a_out>>
    /\ UNCHANGED other_than_a

DefaultsNext == ApplyDefaults \/ ApplyDefaultsAgain

---------------------------------------------------------------------------
(* assets.rs: the string asset registry and resolve_package_file *)

StringAsset(content, asset_path) == [content |-> content, path |-> asset_path]

\* content stands for the text include_str! reads, named by its file
STRING_ASSET_REGISTRY ==
    ( "memo-loader-main" :> StringAsset("../memo-loader/main.typ",
                                        "../memo-loader/main.typ")
   @@ "package-typst-toml" :> StringAsset("../tonguetoquill-usaf-memo/typst.toml",
                                          "../tonguetoquill-usaf-memo/typst.toml")
   @@ "package-lib" :> StringAsset("../tonguetoquill-usaf-memo/src/lib.typ",
                                   "../tonguetoquill-usaf-memo/src/lib.typ")
   @@ "package-utils" :> StringAsset("../tonguetoquill-usaf-memo/src/utils.typ",
                                     "../tonguetoquill-usaf-memo/src/utils.typ") )

load_string_asset(key) ==
    IF key \in DOMAIN STRING_ASSET_REGISTRY
    THEN Some(STRING_ASSET_REGISTRY[key])
    ELSE None

load_binary_asset(key) ==
    IF key \in DOMAIN BINARY_ASSET_REGISTRY
    THEN Some(BINARY_ASSET_REGISTRY[key])
    ELSE None

\* Option::map(|a| a.content)
map_content(asset) == IF asset.some THEN Some(asset.v.content) ELSE None

\* typst's PackageSpec and PackageVersion
PackageVersion(major, minor, patch) == [major |-> major, minor |-> minor, patch |-> patch]
PackageSpec(namespace, name, version) ==
    [namespace |-> namespace, name |-> name, version |-> version]

\* PackageVersion's Display: major.minor.patch
version_to_string(version) ==
    ToString(version.major) \o "." \o ToString(version.minor) \o "." \o ToString(version.patch)

\* resolve_package_file without the test of the version
resolve_package_file_any_version(spec, requested) ==
    IF spec.namespace = "preview" /\ spec.name = "tonguetoquill-usaf-memo"
    THEN CASE requested = "typst.toml" -> map_content(load_string_asset("package-typst-toml"))
           [] requested = "src/lib.typ" -> map_content(load_string_asset("package-lib"))
           [] requested = "src/utils.typ" -> map_content(load_string_asset("package-utils"))
           [] OTHER -> None
    ELSE None

resolve_package_file(spec, requested) ==
    IF /\ spec.namespace = "preview"
       /\ spec.name = "tonguetoquill-usaf-memo"
       /\ version_to_string(spec.version) = "0.1.0"
    THEN CASE requested = "typst.toml" -> map_content(load_string_asset("package-typst-toml"))
           [] requested = "src/lib.typ" -> map_content(load_string_asset("package-lib"))
           [] requested = "src/utils.typ" -> map_content(load_string_asset("package-utils"))
           [] OTHER -> None
    ELSE None

\* largest number in a version
MaxVersion == 1

PackageVersions ==
    {PackageVersion(major, minor, patch) :
        major \in 0..MaxVersion, minor \in 0..MaxVersion, patch \in 0..(MaxVersion + 2)}

PackageSpecs ==
    {PackageSpec(namespace, name, version) :
        namespace \in {"preview", "local"},
        name \in {"tonguetoquill-usaf-memo", "usaf-memo"},
        version \in PackageVersions}

PackagePaths ==
    {"typst.toml", "src/lib.typ", "src/utils.typ", "lib.typ", "src/main.typ", ""}

PackageInit ==
    /\ p_spec \in PackageSpecs
    /\ p_path \in PackagePaths
    /\ p_pc = "call"
    /\ p_out = None

PackageIdle ==
    /\ p_spec = PackageSpec("", "", PackageVersion(0, 0, 0))
    /\ p_path = ""
    /\ p_pc = "idle"
    /\ p_out = None

ResolvePackageFile ==
    /\ p_pc = "call"
    /\ p_out' = resolve_package_file(p_spec, p_path)
    /\ p_pc' = "done"
    /\ UNCHANGED <<p_spec, p_path>>
    /\ UNCHANGED other_than_p

PackageNext == ResolvePackageFile

---------------------------------------------------------------------------
(* assets.rs: the two registries as LazyLock statics, accessed by several    *)
(* callers at once.  The first dereference of a LazyLock runs its closure,   *)
(* under a Once: a caller that finds the initializer running waits for it.   *)

Registries == {"STRING", "BINARY"}

\* the assets.insert calls of each closure, in program order
Inserts ==
    ( "STRING" :> <<"memo-loader-main", "package-typst-toml", "package-lib", "package-utils">>
   @@ "BINARY" :> <<"dod_seal.gif", "arial.ttf", "times.ttf", "Times.ttc",
                    "CopperplateCC-Heavy.otf">> )

\* the entry each insert call puts under its key
Entry(reg, key) ==
    IF reg = "STRING" THEN STRING_ASSET_REGISTRY[key] ELSE BINARY_ASSET_REGISTRY[key]

\* an initializer may be entered whenever the table is not complete
may_initialize_unguarded(state) == state # "complete"

\* Once: the initializer is entered from the incomplete state only
may_initialize(state) == state = "incomplete"

\* REGISTRY.get(key).map(..) of load_string_asset and load_binary_asset
load_from(map, key) == IF key \in DOMAIN map THEN Some(map[key]) ELSE None

\* callers
MaxCallers == 2
\* calls of each caller
MaxCalls == 2

Callers == 1..MaxCallers

LookupKeys ==
    ( "STRING" :> {"package-lib", "nonexistent"}
   @@ "BINARY" :> {"arial.ttf", "nonexistent"} )

LazyInit ==
    /\ lock = [reg \in Registries |-> "incomplete"]
    /\ table = [reg \in Registries |-> <<>>]
    /\ building = [reg \in Registries |-> <<>>]
    /\ init_count = [reg \in Registries |-> 0]
    /\ t_pc = [t \in Callers |-> "idle"]
    /\ t_reg = [t \in Callers |-> "STRING"]
    /\ t_key = [t \in Callers |-> ""]
    /\ t_left = [t \in Callers |-> MaxCalls]
    /\ observed = {}

LazyIdle ==
    /\ lock = <<>>
    /\ table = <<>>
    /\ building = <<>>
    /\ init_count = <<>>
    /\ t_pc = <<>>
    /\ t_reg = <<>>
    /\ t_key = <<>>
    /\ t_left = <<>>
    /\ observed = {}

\* a caller enters load_string_asset or load_binary_asset
Call(t) ==
    /\ t_pc[t] = "idle"
    /\ t_left[t] > 0
    /\ \E reg \in Registries : \E key \in LookupKeys[reg] :
          /\ t_reg' = [t_reg EXCEPT ![t] = reg]
          /\ t_key' = [t_key EXCEPT ![t] = key]
    /\ t_pc' = [t_pc EXCEPT ![t] = "force"]
    /\ t_left' = [t_left EXCEPT ![t] = @ - 1]
    /\ UNCHANGED <<lock, table, building, init_count, observed>>
    /\ UNCHANGED other_than_l

\* the dereference finds the table complete
ForceComplete(t) ==
    /\ t_pc[t] = "force"
    /\ lock[t_reg[t]] = "complete"
    /\ t_pc' = [t_pc EXCEPT ![t] = "read"]
    /\ UNCHANGED <<lock, table, building, init_count, t_reg, t_key, t_left, observed>>
    /\ UNCHANGED other_than_l

\* the dereference enters the closure: let mut assets = HashMap::new()
ForceInitialize(t) ==
    /\ t_pc[t] = "force"
    /\ may_initialize(lock[t_reg[t]])
    /\ lock' = [lock EXCEPT ![t_reg[t]] = "running"]
    /\ init_count' = [init_count EXCEPT ![t_reg[t]] = @ + 1]
    /\ building' = [building EXCEPT ![t_reg[t]] = <<>>]
    /\ t_pc' = [t_pc EXCEPT ![t] = "init"]
    /\ UNCHANGED <<table, t_reg, t_key, t_left, observed>>
    /\ UNCHANGED other_than_l

\* the next assets.insert of the closure
InsertEntry(t) ==
    /\ t_pc[t] = "init"
    /\ LET reg == t_reg[t]
           done == Cardinality(DOMAIN building[reg])
       IN  /\ done < Len(Inserts[reg])
           /\ building' = [building EXCEPT ![reg] =
                  (Inserts[reg][done + 1] :> Entry(reg, Inserts[reg][done + 1])) @@ @]
    /\ UNCHANGED <<lock, table, init_count, t_pc, t_reg, t_key, t_left, observed>>
    /\ UNCHANGED other_than_l

\* the closure returns `assets`; the LazyLock stores it and is complete
Publish(t) ==
    /\ t_pc[t] = "init"
    /\ LET reg == t_reg[t]
       IN  /\ Cardinality(DOMAIN building[reg]) = Len(Inserts[reg])
           /\ table' = [table EXCEPT ![reg] = building[reg]]
           /\ lock' = [lock EXCEPT ![reg] = "complete"]
    /\ t_pc' = [t_pc EXCEPT ![t] = "read"]
    /\ UNCHANGED <<building, init_count, t_reg, t_key, t_left, observed>>
    /\ UNCHANGED other_than_l

\* REGISTRY.get(key) on the table the dereference gave
Lookup(t) ==
    /\ t_pc[t] = "read"
    /\ observed' = observed \cup
           {<<t_reg[t], t_key[t], load_from(table[t_reg[t]], t_key[t])>>}
    /\ t_pc' = [t_pc EXCEPT ![t] = "idle"]
    /\ UNCHANGED <<lock, table, building, init_count, t_reg, t_key, t_left>>
    /\ UNCHANGED other_than_l

LazyNext ==
    \E t \in Callers :
        \/ Call(t)
        \/ ForceComplete(t)
        \/ ForceInitialize(t)
        \/ InsertEntry(t)
        \/ Publish(t)
        \/ Lookup(t)

---------------------------------------------------------------------------
(* The list documents the transpiler is run on *)

\* most operations of a list document
MaxListOps == 4

ListOpPool ==
    { Insert(Str(<<"a">>)),
      InsertWith(Str(<<"b">>), "bold" :> Bool(TRUE)),
      Insert(Str(<<NL>>)),
      InsertWith(Str(<<NL>>), "list" :> Str(BulletStr)),
      InsertWith(Str(<<NL>>), "list" :> Str(BulletStr) @@ "indent" :> Num(1)),
      InsertWith(Str(<<NL>>), "list" :> Str(OrderedStr) @@ "indent" :> Num(2)
                              @@ "header" :> Num(1)),
      InsertWith(Str(<<NL>>), "list" :> Str(OrderedStr) @@ "indent" :> Str(<<"1">>)),
      InsertWith(Str(<<NL>>), "list" :> Str(<<"c">>) @@ "indent" :> Num(1)) }

\* the documents of list operations, and one document for each way the
\* loop ends early or passes an operation by
ListInputs ==
    {Parsed(Obj("ops" :> Arr(s))) : s \in SeqsUpTo(ListOpPool, MaxListOps)}
        \cup {Unparseable, Parsed(Obj(<<>>))}
        \cup {Parsed(Obj("ops" :> Arr(<<o>>))) :
                 o \in {Insert(Obj("image" :> Str(<<"u">>))), Insert(Num(1)),
                        Obj("retain" :> Num(1)), Obj("delete" :> Num(1)), Obj(<<>>)}}

ListInit ==
    /\ delta_json \in ListInputs
    /\ d_pc = "start"
    /\ d_i = 0
    /\ result = <<>>
    /\ current_line = <<>>
    /\ in_list = FALSE
    /\ d_out = NoOutcome
    /\ list_stack = <<>>

---------------------------------------------------------------------------
(* The documents of block lines: newline operations with header, blockquote, *)
(* code-block and list attributes, and text that holds a line break          *)

\* most operations of a document of block lines
MaxBlockOps == 3

BlockOpPool ==
    { Insert(Str(<<"a">>)),
      Insert(Str(<<"a", NL, "b">>)),
      Insert(Str(<<NL>>)),
      InsertWith(Str(<<NL>>), "header" :> Num(2)),
      InsertWith(Str(<<NL>>), "blockquote" :> Bool(TRUE)),
      InsertWith(Str(<<NL>>), "code-block" :> Bool(TRUE)),
      InsertWith(Str(<<NL>>), "header" :> Num(1) @@ "blockquote" :> Bool(TRUE)
                              @@ "code-block" :> Bool(TRUE)),
      InsertWith(Str(<<NL>>), "align" :> Str(<<"c">>)),
      InsertWith(Str(<<NL>>), "list" :> Str(BulletStr)),
      InsertWith(Str(<<NL>>), "list" :> Str(<<"c">>)),
      InsertWith(Str(<<NL>>), "list" :> Num(1)) }

\* the documents of block operations, and one document for each way the
\* loop ends early or passes an operation by
BlockInputs ==
    {Parsed(Obj("ops" :> Arr(s))) : s \in SeqsUpTo(BlockOpPool, MaxBlockOps)}
        \cup {Unparseable, Parsed(Obj(<<>>))}
        \cup {Parsed(Obj("ops" :> Arr(<<o>>))) :
                 o \in {Insert(Obj("image" :> Str(<<"u">>))), Insert(Num(1)),
                        Obj("retain" :> Num(1)), Obj("delete" :> Num(1)), Obj(<<>>)}}

BlockInit ==
    /\ delta_json \in BlockInputs
    /\ d_pc = "start"
    /\ d_i = 0
    /\ result = <<>>
    /\ current_line = <<>>
    /\ in_list = FALSE
    /\ d_out = NoOutcome
    /\ list_stack = <<>>

---------------------------------------------------------------------------
(* form_processor.rs: Content, process_content and process_content_json.     *)
(* The data of a content is a text; as the transpiler's argument it is       *)
(* described by what it parses to, and a text that is no JSON by its words.  *)

RawText(words) == [parses |-> FALSE, text |-> words]

\* struct Content
Content(format, data) == [format |-> format, data |-> data]

\* Deserialize for ContentFormat, rename_all = "lowercase"
deserialize_format(value) ==
    IF value = Str("markup") THEN Some("Markup")
    ELSE IF value = Str("delta") THEN Some("Delta")
    ELSE None

\* content_from_object with Delta for the format of an object without one
content_from_object_default_delta(o) ==
    LET format == IF "format" \in DOMAIN o THEN deserialize_format(o["format"])
                  ELSE Some("Delta")
    IN  IF "data" \in DOMAIN o /\ o["data"].t = "str" /\ format.some
        THEN Some(Content(format.v, o["data"].s))
        ELSE None

\* Deserialize for Content from a JSON object: format is optional and
\* defaults to ContentFormat::default(), data is a required string, other
\* keys are passed over
content_from_object(o) ==
    LET format == IF "format" \in DOMAIN o THEN deserialize_format(o["format"])
                  ELSE Some("Markup")
    IN  IF "data" \in DOMAIN o /\ o["data"].t = "str" /\ format.some
        THEN Some(Content(format.v, o["data"].s))
        ELSE None

\* Deserialize for Content from a JSON array, the fields in their order
content_from_array(a) ==
    IF Len(a) = 2 /\ deserialize_format(a[1]).some /\ a[2].t = "str"
    THEN Some(Content(deserialize_format(a[1]).v, a[2].s))
    ELSE None

\* serde_json::from_value::<Content>
content_from_value(value) ==
    IF value.t = "obj" THEN content_from_object(value.o)
    ELSE IF value.t = "arr" THEN content_from_array(value.a)
    ELSE None

\* serde_json::from_str::<Content>
content_from_str(text) ==
    IF text.parses THEN content_from_value(text.value) ELSE None

\* the documents a content's data holds
ContentTexts ==
    { RawText("Hello"),
      Unparseable,
      Parsed(Obj(<<>>)),
      Parsed(Obj("ops" :> Arr(<<>>))),
      Parsed(Obj("ops" :> Arr(<<Insert(Str(<<"a">>)),
                                InsertWith(Str(<<"b">>), "bold" :> Bool(TRUE))>>))),
      Parsed(Obj("ops" :> Arr(<<Insert(Str(<<"a">>)),
                                InsertWith(Str(<<NL>>), "list" :> Str(BulletStr)),
                                Insert(Str(<<NL>>))>>))),
      Parsed(Obj("ops" :> Arr(<<Insert(Obj("image" :> Str(<<"u">>)))>>))),
      Parsed(Obj("ops" :> Arr(<<Insert(Num(1))>>))),
      Parsed(Obj("ops" :> Arr(<<Obj("retain" :> Num(1))>>))),
      Parsed(Obj("ops" :> Arr(<<Obj("delete" :> Num(1))>>))),
      Parsed(Obj("ops" :> Arr(<<Obj(<<>>), Insert(Str(<<"a">>))>>))) }

\* the values of a content's format key
ContentFormats == {Str("markup"), Str("delta"), Str("plaintext"), Str("Markup"), Null}

ContentJsons ==
    {Unparseable, Parsed(Num(1)), Parsed(Obj(<<>>)), Parsed(Obj("format" :> Str("markup"))),
     Parsed(Obj("data" :> Num(1))), Parsed(Arr(<<Str("markup")>>))}
        \cup {Parsed(Obj("data" :> Str(t))) : t \in ContentTexts}
        \cup {Parsed(Obj("format" :> f @@ "data" :> Str(t))) :
                 f \in ContentFormats, t \in ContentTexts}
        \cup {Parsed(Obj("format" :> Str("delta") @@ "data" :> Str(t) @@ "extra" :> Num(1))) :
                 t \in ContentTexts}
        \cup {Parsed(Arr(<<f, Str(t)>>)) : f \in ContentFormats, t \in ContentTexts}

ContentInit ==
    /\ c_json \in ContentJsons
    /\ c_pc = "call"
    /\ c_out = NoOutcome

ContentIdle ==
    /\ c_json = Unparseable
    /\ c_pc = "idle"
    /\ c_out = NoOutcome

\* serde_json::from_str fails: Err(InvalidFormat("Invalid content JSON: ..."))
ContentJsonError ==
    /\ c_pc = "call"
    /\ ~content_from_str(c_json).some
    /\ c_out' = Err("InvalidFormat")
    /\ c_pc' = "done"
    /\ UNCHANGED c_json
    /\ UNCHANGED other_than_c

\* ContentFormat::Markup => Ok(content.data.clone())
ProcessMarkup ==
    /\ c_pc = "call"
    /\ content_from_str(c_json).some
    /\ content_from_str(c_json).v.format = "Markup"
    /\ c_out' = Ok(content_from_str(c_json).v.data)
    /\ c_pc' = "done"
    /\ UNCHANGED c_json
    /\ UNCHANGED other_than_c

\* ContentFormat::Delta: DeltaParser::new() and the call of parse
ProcessDelta ==
    /\ c_pc = "call"
    /\ content_from_str(c_json).some
    /\ content_from_str(c_json).v.format = "Delta"
    /\ delta_json' = content_from_str(c_json).v.data
    /\ d_pc' = "start"
    /\ d_i' = 0
    /\ result' = <<>>
    /\ current_line' = <<>>
    /\ in_list' = FALSE
    /\ d_out' = NoOutcome
    /\ list_stack' = <<>>
    /\ c_pc' = "parsing"
    /\ UNCHANGED <<c_json, c_out>>
    /\ UNCHANGED other_than_c_d

\* parse returned: its Result is the Result of process_content
ProcessDeltaReturn ==
    /\ c_pc = "parsing"
    /\ d_pc = "done"
    /\ c_out' = d_out
    /\ c_pc' = "done"
    /\ UNCHANGED c_json
    /\ UNCHANGED other_than_c

ContentNext ==
    \/ ContentJsonError
    \/ ProcessMarkup
    \/ ProcessDelta
    \/ ProcessDeltaReturn
    \/ DeltaNext

---------------------------------------------------------------------------
(* form_processor.rs: preprocess_form_json *)

\* serde_json::to_string
to_string(value) == JsonText("compact", to_tree(value))

\* str::is_empty
is_empty(s) == s = ""

\* should_fill_body_raw
should_fill_body_raw(input_value) ==
    LET body_raw == Get(input_value, "body_raw")
    IN  IF body_raw.some
        THEN body_raw.v.t = "null" \/ (body_raw.v.t = "str" /\ is_empty(body_raw.v.s))
        ELSE TRUE

\* the Content the body of the form deserializes to, when body_raw is to be
\* filled and there is a body that deserializes
body_content(input_value) ==
    IF should_fill_body_raw(input_value) /\ Get(input_value, "body").some
    THEN content_from_value(Get(input_value, "body").v)
    ELSE None

\* obj.insert("body_raw", JsonValue::String(markup)) where the root is an object
with_body_raw(input_value, markup) ==
    IF input_value.t = "obj"
    THEN Obj(MapInsert(input_value.o, "body_raw", Str(markup)))
    ELSE input_value

PreprocessOk(text) == [ok |-> TRUE, json |-> text]

\* most members of a form
MaxFormMembers == 2

FormMemberPool ==
    { Member("subject", Str("s")),
      Member("body_raw", Null),
      Member("body_raw", Str("")),
      Member("body_raw", Str("kept")),
      Member("body_raw", Num(0)),
      Member("body", Str("Hello")),
      Member("body", Arr(<<Str("markup"), Str(RawText("Hello"))>>)),
      Member("body", TextObj(<<Member("format", Str("plaintext")),
                               Member("data", Str(RawText("Hello")))>>)),
      Member("body", TextObj(<<Member("format", Str("markup")),
                               Member("data", Str(RawText("Hello")))>>)) }
        \cup {Member("body", TextObj(<<Member("data", Str(t))>>)) :
                 t \in {RawText("Hello"), Unparseable}}
        \cup {Member("body", TextObj(<<Member("format", Str("delta")), Member("data", Str(t))>>)) :
                 t \in ContentTexts \ {RawText("Hello")}}

FormJsons ==
    {Unparseable, JsonText("pretty", Num(1)), JsonText("pretty", Arr(<<Str("body")>>))}
        \cup {JsonText("pretty", TextObj(ms)) : ms \in SeqsUpTo(FormMemberPool, MaxFormMembers)}

PreprocessInit ==
    /\ q_json \in FormJsons
    /\ q_pc = "call"
    /\ q_out = NoOutcome

PreprocessIdle ==
    /\ q_json = Unparseable
    /\ q_pc = "idle"
    /\ q_out = NoOutcome

\* serde_json::from_str fails: Err(InvalidFormat("Invalid form JSON: ..."))
PreprocessJsonError ==
    /\ q_pc = "call"
    /\ ~from_str(q_json).parses
    /\ q_out' = Err("InvalidFormat")
    /\ q_pc' = "done"
    /\ UNCHANGED q_json
    /\ UNCHANGED other_than_q

\* body_raw is not to be filled, or there is no body, or the body is no Content
PreprocessKeep ==
    /\ q_pc = "call"
    /\ from_str(q_json).parses
    /\ ~body_content(from_str(q_json).value).some
    /\ q_out' = PreprocessOk(to_string(from_str(q_json).value))
    /\ q_pc' = "done"
    /\ UNCHANGED q_json
    /\ UNCHANGED other_than_q

\* process_content of a Markup body
PreprocessMarkup ==
    /\ q_pc = "call"
    /\ from_str(q_json).parses
    /\ LET input_value == from_str(q_json).value
           content_obj == body_content(input_value)
       IN  /\ content_obj.some
           /\ content_obj.v.format = "Markup"
           /\ q_out' = PreprocessOk(to_string(with_body_raw(input_value, content_obj.v.data)))
    /\ q_pc' = "done"
    /\ UNCHANGED q_json
    /\ UNCHANGED other_than_q

\* process_content of a Delta body: DeltaParser::new() and the call of parse
PreprocessDelta ==
    /\ q_pc = "call"
    /\ from_str(q_json).parses
    /\ LET content_obj == body_content(from_str(q_json).value)
       IN  /\ content_obj.some
           /\ content_obj.v.format = "Delta"
           /\ delta_json' = content_obj.v.data
    /\ d_pc' = "start"
    /\ d_i' = 0
    /\ result' = <<>>
    /\ current_line' = <<>>
    /\ in_list' = FALSE
    /\ d_out' = NoOutcome
    /\ list_stack' = <<>>
    /\ q_pc' = "parsing"
    /\ UNCHANGED <<q_json, q_out>>
    /\ UNCHANGED other_than_q_d

\* parse returned: Ok(markup) is inserted, Err(e) becomes
\* Err(InvalidFormat("Failed to process body content: ..."))
PreprocessDeltaReturn ==
    /\ q_pc = "parsing"
    /\ d_pc = "done"
    /\ q_out' = IF d_out.ok
                THEN PreprocessOk(to_string(with_body_raw(from_str(q_json).value, d_out.markup)))
                ELSE Err("InvalidFormat")
    /\ q_pc' = "done"
    /\ UNCHANGED q_json
    /\ UNCHANGED other_than_q

PreprocessNext ==
    \/ PreprocessJsonError
    \/ PreprocessKeep
    \/ PreprocessMarkup
    \/ PreprocessDelta
    \/ PreprocessDeltaReturn
    \/ DeltaNext

---------------------------------------------------------------------------
(* typst_wrapper.rs: TypstWorld as render_markup prepares it, and the World  *)
(* callback `source` the compiler calls on it.  A FileId is its package and  *)
(* its path without the root.                                                *)

FileId(package, vpath) == [package |-> package, vpath |-> vpath]
Source(id, text) == [id |-> id, text |-> text]

FileOk(source) == [ok |-> TRUE, source |-> source]
NotFound(vpath) == [ok |-> FALSE, err |-> "NotFound", path |-> vpath]
NoFileResult == [ok |-> FALSE, err |-> "none", path |-> ""]

MainId == FileId(None, "main.typ")

\* World::source
source(sources, package_sources, id) ==
    IF id \in DOMAIN sources THEN FileOk(sources[id])
    ELSE IF id \in DOMAIN package_sources THEN FileOk(package_sources[id])
    ELSE IF id.package.some /\ resolve_package_file(id.package.v, id.vpath).some
         THEN FileOk(Source(id, resolve_package_file(id.package.v, id.vpath).v))
    ELSE NotFound(id.vpath)

\* the packages a document may import
ImportedSpecs ==
    {PackageSpec(namespace, name, version) :
        namespace \in {"preview", "local"},
        name \in {"tonguetoquill-usaf-memo", "usaf-memo"},
        version \in {PackageVersion(0, 0, 3), PackageVersion(0, 1, 0),
                     PackageVersion(0, 0, 1), PackageVersion(1, 0, 0)}}

\* the files the compiler may ask for
FileIds ==
    {MainId, FileId(None, "other.typ")}
        \cup {FileId(Some(spec), vpath) : spec \in ImportedSpecs, vpath \in PackagePaths}

\* TypstWorld::new()
WorldInit ==
    /\ w_sources = <<>>
    /\ w_package_sources = <<>>
    /\ w_pc = "new"
    /\ w_id = MainId
    /\ w_out = NoFileResult

WorldIdle ==
    /\ w_sources = <<>>
    /\ w_package_sources = <<>>
    /\ w_pc = "idle"
    /\ w_id = MainId
    /\ w_out = NoFileResult

\* render_markup: world.insert_source(source) with the main source
InsertSource ==
    /\ w_pc = "new"
    /\ \E markup \in {"import 0.0.3", "import 0.1.0", "no import"} :
          w_sources' = (MainId :> Source(MainId, markup)) @@ w_sources
    /\ w_pc' = "compiling"
    /\ UNCHANGED <<w_package_sources, w_id, w_out>>
    /\ UNCHANGED other_than_w

\* the compiler calls world.source(id)
SourceCall ==
    /\ w_pc = "compiling"
    /\ \E id \in FileIds :
          /\ w_id' = id
          /\ w_out' = source(w_sources, w_package_sources, id)
    /\ UNCHANGED <<w_sources, w_package_sources, w_pc>>
    /\ UNCHANGED other_than_w

WorldNext == InsertSource \/ SourceCall

---------------------------------------------------------------------------
(* form_processor.rs: validate_official_memo_schema.  The schema is the       *)
(* string asset registered as "official-memo-schema"; whether that text       *)
(* parses and whether jsonschema accepts an instance are decided outside the  *)
(* source and are inputs of the call.  An error carries its message, the      *)
(* fixed text its format string starts with.                                  *)

\* Ok(())
OkUnit == [ok |-> TRUE]

\* Err(ParserError::kind(msg))
ErrMsg(kind, msg) == [ok |-> FALSE, err |-> kind, msg |-> msg]

\* str::contains
contains(msg, needle) ==
    \E i \in 1..(Len(msg) - Len(needle) + 1) : SubSeq(msg, i, i + Len(needle) - 1) = needle

\* load_official_memo_schema_value; schema_parses is serde_json::from_str's verdict
\* on the asset's text
load_official_memo_schema_value(schema_parses) ==
    LET schema_asset == load_string_asset("official-memo-schema")
    IN  IF ~schema_asset.some
        THEN ErrMsg("InvalidFormat", "Schema asset not found")
        ELSE IF schema_parses
             THEN [ok |-> TRUE, schema |-> schema_asset.v.content]
             ELSE ErrMsg("InvalidFormat", "Invalid schema JSON: failed to parse as JSON")

\* validate_official_memo_schema; matches is jsonschema::validate's verdict
validate_official_memo_schema(form_json, schema_parses, matches) ==
    LET schema_json == load_official_memo_schema_value(schema_parses)
        instance == from_str(form_json)
    IN  IF ~schema_json.ok THEN schema_json
        ELSE IF ~instance.parses THEN ErrMsg("InvalidFormat", "Invalid form JSON: ")
        ELSE IF ~matches THEN ErrMsg("InvalidFormat", "Form JSON does not match schema: ")
        ELSE OkUnit

\* the memo of validates_official_memo_schema_minimal and its like
MinimalMemos ==
    {JsonText(layout, TextObj(<<Member("memo-for", Arr(memo_for)),
                                Member("from-block", Arr(from_block)),
                                Member("subject", Str(subject)),
                                Member("signature-block", Arr(signature_block)),
                                Member("body", TextObj(<<Member("format", Str(format)),
                                                         Member("data", Str(RawText("Hello")))>>))>>)) :
        layout \in {"pretty", "compact"},
        memo_for \in {<<Str("X")>>, <<Str("X"), Str("Y")>>},
        from_block \in {<<Str("A")>>, <<Str("A"), Str("B")>>},
        subject \in {"S", "T"},
        signature_block \in {<<Str("Name"), Str("Title")>>, <<Str("Name")>>},
        format \in {"markup", "delta"}}

\* the form texts handed to the schema validation
SchemaForms ==
    MinimalMemos
        \cup {Unparseable, JsonText("pretty", Num(1)), JsonText("pretty", TextObj(<<>>)),
              JsonText("pretty", TextObj(<<Member("subject", Str("S"))>>))}

SchemaInit ==
    /\ s_json \in SchemaForms
    /\ s_pc = "call"
    /\ s_out = NoOutcome

SchemaIdle ==
    /\ s_json = Unparseable
    /\ s_pc = "idle"
    /\ s_out = NoOutcome

ValidateOfficialMemoSchema ==
    /\ s_pc = "call"
    /\ \E schema_parses \in BOOLEAN, matches \in BOOLEAN :
           s_out' = validate_official_memo_schema(s_json, schema_parses, matches)
    /\ s_pc' = "done"
    /\ UNCHANGED s_json
    /\ UNCHANGED other_than_s

SchemaNext == ValidateOfficialMemoSchema

---------------------------------------------------------------------------
(* wasm-wrapper/src/lib.rs: render_form.  The format argument selects the     *)
(* OutputFormat of the RenderConfig; the engine's compilation is outside the  *)
(* model, its result is one of the three the function distinguishes.          *)

\* the match on format.as_deref()
output_format(format) ==
    IF format = Some("pdf") \/ format = Some("PDF") THEN "Pdf" ELSE "Svg"

RenderConfig(format) == [format |-> format]

\* what engine_render_form may return
EngineResults == {"pages", "no pages", "error"}

\* the Result of render_form for a result of the engine
render_form_result(engine, config) ==
    IF engine = "pages" THEN [ok |-> TRUE, page |-> config.format]
    ELSE IF engine = "no pages" THEN ErrMsg("JsValue", "Error: No pages generated")
    ELSE ErrMsg("JsValue", "Form render failed: ")

\* the letters of "pdf" in both cases
PdfLetters == {"p", "d", "f", "P", "D", "F"}

\* the format arguments of a call
FormatArguments ==
    {None}
        \cup {Some(a \o b \o c) : a \in PdfLetters, b \in PdfLetters, c \in PdfLetters}
        \cup {Some(s) : s \in {"", "svg", "SVG", "Svg", "pd", "pdfs", "png"}}

RenderFormInit ==
    /\ o_format \in FormatArguments
    /\ o_pc = "call"
    /\ o_config = RenderConfig("Svg")
    /\ o_out = NoOutcome

RenderFormIdle ==
    /\ o_format = None
    /\ o_pc = "idle"
    /\ o_config = RenderConfig("Svg")
    /\ o_out = NoOutcome

RenderForm ==
    /\ o_pc = "call"
    /\ o_config' = RenderConfig(output_format(o_format))
    /\ \E engine \in EngineResults : o_out' = render_form_result(engine, o_config')
    /\ o_pc' = "done"
    /\ UNCHANGED o_format
    /\ UNCHANGED other_than_o

RenderFormNext == RenderForm

---------------------------------------------------------------------------
(* delta_parser.rs: DeltaParser::parse called from several threads, on the    *)
(* same parser or on different ones.  parse and convert_json_to_typst borrow  *)
(* the parser as &self; result, current_line and in_list are locals of the    *)
(* call.  A frame is one call: the parser it borrows, its argument, its       *)
(* locals and its position.  A step of a call is one pass of the loop body,   *)
(* as in the actions of the single call above.                                *)

\* most calls of one thread
MaxParseCalls == 2

Threads == {1, 2}
ParserIds == {1, 2}

\* DeltaParser::new
new_parser == [list_stack |-> <<>>]

\* a thread outside parse
IdleFrame ==
    [pc |-> "idle", parser |-> 1, delta_json |-> Unparseable, i |-> 0, result |-> <<>>,
     current_line |-> <<>>, in_list |-> FALSE, out |-> NoOutcome, entry_stack |-> <<>>,
     overlapped |-> FALSE]

\* parse(&self, delta_json) entered on a parser
EnterFrame(p, text, parser) ==
    [IdleFrame EXCEPT !.pc = "start", !.parser = p, !.delta_json = text,
                      !.entry_stack = parser.list_stack]

\* return from the call
frame_return(f, outcome) == [f EXCEPT !.pc = "done", !.out = outcome]

\* the body of the loop for the operation f.i + 1
loop_body(f, operation) ==
    LET ins == Get(operation, "insert")
        next == [f EXCEPT !.i = f.i + 1]
    IN  IF ins.some
        THEN IF ins.v = Str(<<NL>>)
             THEN LET closed == IF f.in_list THEN f.result \o <<NL>> ELSE f.result
                  IN  IF OpAttributes(operation).some
                      THEN LET attrs == OpAttributes(operation).v
                               formatted_line == handle_line_formatting(f.current_line, attrs)
                               list_info == extract_list_info(attrs)
                               line == IF formatted_line = <<>> /\ f.current_line # <<>>
                                       THEN f.current_line
                                       ELSE formatted_line
                               break == IF f.current_line # <<>> \/ formatted_line # <<>>
                                        THEN <<NL>>
                                        ELSE <<>>
                           IN  IF list_info.some
                               THEN [next EXCEPT
                                        !.result = f.result
                                            \o format_list_item(f.current_line, list_info.v),
                                        !.in_list = TRUE,
                                        !.current_line = <<>>]
                               ELSE [next EXCEPT
                                        !.result = closed \o line \o break,
                                        !.in_list = FALSE,
                                        !.current_line = <<>>]
                      ELSE [next EXCEPT
                               !.result = IF f.current_line # <<>>
                                          THEN closed \o f.current_line \o <<NL>>
                                          ELSE closed \o <<NL>>,
                               !.in_list = FALSE,
                               !.current_line = <<>>]
             ELSE IF ins.v.t = "str"
             THEN [next EXCEPT
                      !.current_line = f.current_line
                          \o apply_text_formatting(ins.v.s, OpAttributes(operation))]
             ELSE IF ins.v.t = "obj"
             THEN LET embed_typst == handle_embed(ins.v.o)
                  IN  IF embed_typst.ok
                      THEN [next EXCEPT !.current_line = f.current_line \o embed_typst.markup]
                      ELSE frame_return(f, embed_typst)
             ELSE frame_return(f, Err("InvalidFormat"))
        ELSE IF Get(operation, "retain").some THEN frame_return(f, Err("UnsupportedOperation"))
        ELSE IF Get(operation, "delete").some THEN frame_return(f, Err("UnsupportedOperation"))
        ELSE next

\* one step of parse and convert_json_to_typst
parse_step(f) ==
    IF f.pc = "start"
    THEN IF ~f.delta_json.parses THEN frame_return(f, Err("JsonError"))
         ELSE IF ~OpsOf(f.delta_json.value).some THEN frame_return(f, Err("InvalidFormat"))
         ELSE [f EXCEPT !.pc = "loop", !.i = 0, !.result = <<>>, !.current_line = <<>>,
                        !.in_list = FALSE]
    ELSE LET operations == OpsOf(f.delta_json.value).v
         IN  IF f.i < Len(operations)
             THEN loop_body(f, operations[f.i + 1])
             ELSE LET flushed == IF f.current_line # <<>>
                                 THEN f.result \o f.current_line
                                 ELSE f.result
                  IN  frame_return([f EXCEPT !.result = flushed], Ok(trim_end(flushed)))

\* a parser whose stack follows the list the call is in
list_stack_tracking(parser, f) ==
    [parser EXCEPT !.list_stack = IF f.in_list THEN <<"Bullet">> ELSE <<>>]

\* the parser after a step of a call that borrows it as &self: no step writes list_stack
parser_after_step(parser, f) == parser

\* the documents of the concurrent calls
ParseInputs ==
    {Unparseable,
     Parsed(Obj("ops" :> Arr(<<Obj("retain" :> Num(1))>>))),
     Parsed(Obj("ops" :> Arr(<<Insert(Str(<<"a">>)), Insert(Str(<<NL>>))>>))),
     Parsed(Obj("ops" :> Arr(<<Insert(Str(<<"a">>)),
                               InsertWith(Str(<<NL>>), "list" :> Str(BulletStr))>>))),
     Parsed(Obj("ops" :> Arr(<<Insert(Str(<<"a">>)),
                               InsertWith(Str(<<NL>>), "list" :> Str(BulletStr)),
                               Insert(Str(<<"a">>))>>)))}

ConcurrentInit ==
    /\ k_parsers = [p \in ParserIds |-> new_parser]
    /\ k_frames = [t \in Threads |-> IdleFrame]
    /\ k_left = [t \in Threads |-> MaxParseCalls]
    /\ k_returns = {}

ConcurrentIdle ==
    /\ k_parsers = [p \in ParserIds |-> new_parser]
    /\ k_frames = [t \in Threads |-> IdleFrame]
    /\ k_left = [t \in Threads |-> 0]
    /\ k_returns = {}

\* a thread calls parser.parse(delta_json)
ParseCall(t) ==
    /\ k_frames[t].pc = "idle"
    /\ k_left[t] > 0
    /\ \E p \in ParserIds, text \in ParseInputs :
           k_frames' = [k_frames EXCEPT ![t] = EnterFrame(p, text, k_parsers[p])]
    /\ k_left' = [k_left EXCEPT ![t] = @ - 1]
    /\ UNCHANGED <<k_parsers, k_returns>>
    /\ UNCHANGED other_than_k

\* a thread's call takes a step
ParseStep(t) ==
    /\ k_frames[t].pc \in {"start", "loop"}
    /\ LET f == parse_step(k_frames[t])
           others == \E u \in Threads \ {t} :
                         /\ k_frames[u].pc \in {"start", "loop"}
                         /\ k_frames[u].parser = f.parser
       IN  /\ k_frames' = [k_frames EXCEPT ![t] = [f EXCEPT !.overlapped = @ \/ others]]
           /\ k_parsers' = [k_parsers EXCEPT ![f.parser] = parser_after_step(@, f)]
    /\ UNCHANGED <<k_left, k_returns>>
    /\ UNCHANGED other_than_k

\* the caller takes the Result
ParseReturn(t) ==
    /\ k_frames[t].pc = "done"
    /\ k_returns' = k_returns \cup {<<k_frames[t].delta_json, k_frames[t].out>>}
    /\ k_frames' = [k_frames EXCEPT ![t] = IdleFrame]
    /\ UNCHANGED <<k_parsers, k_left>>
    /\ UNCHANGED other_than_k

ConcurrentNext ==
    \/ \E t \in Threads : ParseCall(t)
    \/ \E t \in Threads : ParseStep(t)
    \/ \E t \in Threads : ParseReturn(t)

---------------------------------------------------------------------------
(* typst_wrapper.rs: TypstWorld as render_form prepares it, and the World     *)
(* callback `main`.  `sources` is a HashMap: `values()` yields its entries in *)
(* an order the program does not choose, and `find` takes the first entry     *)
(* that satisfies the test.                                                   *)

\* largest timestamp of a render
MaxTimestamp == 1

\* the JSON input as a virtual file
json_file_id(timestamp) == FileId(None, "memo-loader/input-" \o ToString(timestamp) \o ".json")

\* the memo-loader template as the main source
memo_loader_file_id(timestamp) ==
    FileId(None, "memo-loader/main-" \o ToString(timestamp) \o ".typ")

\* memo_loader_asset.content.replace(..): the template reading the named JSON file
modified_main_content(content, json_filename) == [template |-> content, input |-> json_filename]

\* TypstWorld::insert_source
insert_source(sources, src) == (src.id :> src) @@ sources

\* the sources of the world render_form hands to render_file, None where the
\* template is not registered
render_form_sources(input_text, timestamp) ==
    LET with_json == insert_source(<<>>, Source(json_file_id(timestamp), input_text))
        memo_loader_asset == load_string_asset("memo-loader-main")
    IN  IF ~memo_loader_asset.some THEN None
        ELSE Some(insert_source(with_json,
                      Source(memo_loader_file_id(timestamp),
                             modified_main_content(memo_loader_asset.v.content,
                                 "input-" \o ToString(timestamp) \o ".json"))))

\* the ids World::main may return: those of the sources `find` accepts, each of
\* which `values()` may yield first
main_ids(sources) == {sources[id].id : id \in {i \in DOMAIN sources : ~sources[i].id.package.some}}

FormWorldInit ==
    /\ g_json \in SchemaForms
    /\ g_timestamp \in 0..MaxTimestamp
    /\ g_sources = <<>>
    /\ g_pc = "new"
    /\ g_main = None

FormWorldIdle ==
    /\ g_json = Unparseable
    /\ g_timestamp = 0
    /\ g_sources = <<>>
    /\ g_pc = "idle"
    /\ g_main = None

\* render_form up to the call of render_file
PrepareFormWorld ==
    /\ g_pc = "new"
    /\ LET prepared == render_form_sources(g_json, g_timestamp)
       IN  IF prepared.some
           THEN g_sources' = prepared.v /\ g_pc' = "compiling"
           ELSE g_sources' = g_sources /\ g_pc' = "failed"
    /\ UNCHANGED <<g_json, g_timestamp, g_main>>
    /\ UNCHANGED other_than_g

\* the compiler calls world.main()
MainCall ==
    /\ g_pc = "compiling"
    /\ \E id \in main_ids(g_sources) : g_main' = Some(id)
    /\ g_pc' = "main"
    /\ UNCHANGED <<g_json, g_timestamp, g_sources>>
    /\ UNCHANGED other_than_g

FormWorldNext == PrepareFormWorld \/ MainCall

---------------------------------------------------------------------------
(* Specifications *)

InitDelta ==
    /\ DeltaInit
    /\ FormatIdle
    /\ MemoIdle
    /\ DefaultsIdle
    /\ ResolveIdle
    /\ PackageIdle
    /\ LazyIdle
    /\ ContentIdle
    /\ PreprocessIdle
    /\ WorldIdle
    /\ SchemaIdle
    /\ RenderFormIdle
    /\ ConcurrentIdle
    /\ FormWorldIdle
SpecDelta == InitDelta /\ [][DeltaNext]_vars

InitFormat ==
    /\ FormatInit
    /\ DeltaIdle
    /\ MemoIdle
    /\ DefaultsIdle
    /\ ResolveIdle
    /\ PackageIdle
    /\ LazyIdle
    /\ ContentIdle
    /\ PreprocessIdle
    /\ WorldIdle
    /\ SchemaIdle
    /\ RenderFormIdle
    /\ ConcurrentIdle
    /\ FormWorldIdle
SpecFormat == InitFormat /\ [][FormatNext]_vars

InitMemo ==
    /\ MemoInit
    /\ DeltaIdle
    /\ FormatIdle
    /\ DefaultsIdle
    /\ ResolveIdle
    /\ PackageIdle
    /\ LazyIdle
    /\ ContentIdle
    /\ PreprocessIdle
    /\ WorldIdle
    /\ SchemaIdle
    /\ RenderFormIdle
    /\ ConcurrentIdle
    /\ FormWorldIdle
SpecMemo == InitMemo /\ [][MemoNext]_vars

InitMemoEdit ==
    /\ MemoEditInit
    /\ DeltaIdle
    /\ FormatIdle
    /\ DefaultsIdle
    /\ ResolveIdle
    /\ PackageIdle
    /\ LazyIdle
    /\ ContentIdle
    /\ PreprocessIdle
    /\ WorldIdle
    /\ SchemaIdle
    /\ RenderFormIdle
    /\ ConcurrentIdle
    /\ FormWorldIdle
SpecMemoEdit == InitMemoEdit /\ [][MemoEditNext]_vars

InitDefaults ==
    /\ DefaultsInit
    /\ DeltaIdle
    /\ FormatIdle
    /\ MemoIdle
    /\ ResolveIdle
    /\ PackageIdle
    /\ LazyIdle
    /\ ContentIdle
    /\ PreprocessIdle
    /\ WorldIdle
    /\ SchemaIdle
    /\ RenderFormIdle
    /\ ConcurrentIdle
    /\ FormWorldIdle
SpecDefaults == InitDefaults /\ [][DefaultsNext]_vars

InitResolve ==
    /\ ResolveInit
    /\ DeltaIdle
    /\ FormatIdle
    /\ MemoIdle
    /\ DefaultsIdle
    /\ PackageIdle
    /\ LazyIdle
    /\ ContentIdle
    /\ PreprocessIdle
    /\ WorldIdle
    /\ SchemaIdle
    /\ RenderFormIdle
    /\ ConcurrentIdle
    /\ FormWorldIdle
SpecResolve == InitResolve /\ [][ResolveNext]_vars

InitPackage ==
    /\ PackageInit
    /\ DeltaIdle
    /\ FormatIdle
    /\ MemoIdle
    /\ DefaultsIdle
    /\ ResolveIdle
    /\ LazyIdle
    /\ ContentIdle
    /\ PreprocessIdle
    /\ WorldIdle
    /\ SchemaIdle
    /\ RenderFormIdle
    /\ ConcurrentIdle
    /\ FormWorldIdle
SpecPackage == InitPackage /\ [][PackageNext]_vars

InitLazy ==
    /\ LazyInit
    /\ DeltaIdle
    /\ FormatIdle
    /\ MemoIdle
    /\ DefaultsIdle
    /\ ResolveIdle
    /\ PackageIdle
    /\ ContentIdle
    /\ PreprocessIdle
    /\ WorldIdle
    /\ SchemaIdle
    /\ RenderFormIdle
    /\ ConcurrentIdle
    /\ FormWorldIdle
SpecLazy == InitLazy /\ [][LazyNext]_vars

InitList ==
    /\ ListInit
    /\ FormatIdle
    /\ MemoIdle
    /\ DefaultsIdle
    /\ ResolveIdle
    /\ PackageIdle
    /\ LazyIdle
    /\ ContentIdle
    /\ PreprocessIdle
    /\ WorldIdle
    /\ SchemaIdle
    /\ RenderFormIdle
    /\ ConcurrentIdle
    /\ FormWorldIdle
SpecList == InitList /\ [][DeltaNext]_vars

InitContent ==
    /\ ContentInit
    /\ DeltaIdle
    /\ FormatIdle
    /\ MemoIdle
    /\ DefaultsIdle
    /\ ResolveIdle
    /\ PackageIdle
    /\ LazyIdle
    /\ PreprocessIdle
    /\ WorldIdle
    /\ SchemaIdle
    /\ RenderFormIdle
    /\ ConcurrentIdle
    /\ FormWorldIdle
SpecContent == InitContent /\ [][ContentNext]_vars

InitPreprocess ==
    /\ PreprocessInit
    /\ DeltaIdle
    /\ FormatIdle
    /\ MemoIdle
    /\ DefaultsIdle
    /\ ResolveIdle
    /\ PackageIdle
    /\ LazyIdle
    /\ ContentIdle
    /\ WorldIdle
    /\ SchemaIdle
    /\ RenderFormIdle
    /\ ConcurrentIdle
    /\ FormWorldIdle
SpecPreprocess == InitPreprocess /\ [][PreprocessNext]_vars

InitWorld ==
    /\ WorldInit
    /\ DeltaIdle
    /\ FormatIdle
    /\ MemoIdle
    /\ DefaultsIdle
    /\ ResolveIdle
    /\ PackageIdle
    /\ LazyIdle
    /\ ContentIdle
    /\ PreprocessIdle
    /\ SchemaIdle
    /\ RenderFormIdle
    /\ ConcurrentIdle
    /\ FormWorldIdle
SpecWorld == InitWorld /\ [][WorldNext]_vars

InitSchema ==
    /\ SchemaInit
    /\ DeltaIdle
    /\ FormatIdle
    /\ MemoIdle
    /\ DefaultsIdle
    /\ ResolveIdle
    /\ PackageIdle
    /\ LazyIdle
    /\ ContentIdle
    /\ PreprocessIdle
    /\ WorldIdle
    /\ RenderFormIdle
    /\ ConcurrentIdle
    /\ FormWorldIdle
SpecSchema == InitSchema /\ [][SchemaNext]_vars

InitRenderForm ==
    /\ RenderFormInit
    /\ DeltaIdle
    /\ FormatIdle
    /\ MemoIdle
    /\ DefaultsIdle
    /\ ResolveIdle
    /\ PackageIdle
    /\ LazyIdle
    /\ ContentIdle
    /\ PreprocessIdle
    /\ WorldIdle
    /\ SchemaIdle
    /\ ConcurrentIdle
    /\ FormWorldIdle
SpecRenderForm == InitRenderForm /\ [][RenderFormNext]_vars

InitConcurrent ==
    /\ ConcurrentInit
    /\ DeltaIdle
    /\ FormatIdle
    /\ MemoIdle
    /\ DefaultsIdle
    /\ ResolveIdle
    /\ PackageIdle
    /\ LazyIdle
    /\ ContentIdle
    /\ PreprocessIdle
    /\ WorldIdle
    /\ SchemaIdle
    /\ RenderFormIdle
    /\ FormWorldIdle
SpecConcurrent == InitConcurrent /\ [][ConcurrentNext]_vars

InitBlock ==
    /\ BlockInit
    /\ FormatIdle
    /\ MemoIdle
    /\ DefaultsIdle
    /\ ResolveIdle
    /\ PackageIdle
    /\ LazyIdle
    /\ ContentIdle
    /\ PreprocessIdle
    /\ WorldIdle
    /\ SchemaIdle
    /\ RenderFormIdle
    /\ ConcurrentIdle
    /\ FormWorldIdle
SpecBlock == InitBlock /\ [][DeltaNext]_vars

InitFormWorld ==
    /\ FormWorldInit
    /\ DeltaIdle
    /\ FormatIdle
    /\ MemoIdle
    /\ DefaultsIdle
    /\ ResolveIdle
    /\ PackageIdle
    /\ LazyIdle
    /\ ContentIdle
    /\ PreprocessIdle
    /\ WorldIdle
    /\ SchemaIdle
    /\ RenderFormIdle
    /\ ConcurrentIdle
SpecFormWorld == InitFormWorld /\ [][FormWorldNext]_vars

InitMemoDefaults ==
    /\ MemoEditInit
    /\ DeltaIdle
    /\ FormatIdle
    /\ DefaultsIdle
    /\ ResolveIdle
    /\ PackageIdle
    /\ LazyIdle
    /\ ContentIdle
    /\ PreprocessIdle
    /\ WorldIdle
    /\ SchemaIdle
    /\ RenderFormIdle
    /\ ConcurrentIdle
    /\ FormWorldIdle
SpecMemoDefaults == InitMemoDefaults /\ [][MemoDefaultsNext]_vars

---------------------------------------------------------------------------
(* Claims about the Delta transpiler *)

ParsedOps == delta_json.parses /\ OpsOf(delta_json.value).some

\* some operation of `ops` has a retain or a delete key
HasRetainOrDelete ==
    \E i \in 1..Len(Ops) : Get(Ops[i], "retain").some \/ Get(Ops[i], "delete").some

\* C1: whenever some operation of the document's `ops` has a `retain` or a
\* `delete` key, at any position and with or without an `insert` key beside
\* it, parse returns Err(UnsupportedOperation), and so no markup.
C1_RetainDeleteAlwaysUnsupported ==
    (d_pc = "done" /\ ParsedOps /\ HasRetainOrDelete)
        => d_out = Err("UnsupportedOperation")

\* an attribute wraps exactly when the map holds the boolean true for it
Active(k) ==
    /\ f_attributes.some
    /\ k \in DOMAIN f_attributes.v
    /\ f_attributes.v[k] = Bool(TRUE)

\* the opening and closing marker of each inline attribute
Opener(k) ==
    CASE k = "bold" -> <<"*">>
      [] k = "italic" -> <<"_">>
      [] k = "underline" -> UnderlineOpen
      [] k = "strike" -> StrikeOpen
      [] k = "code" -> <<Backquote>>

Closer(k) ==
    CASE k = "bold" -> <<"*">>
      [] k = "italic" -> <<"_">>
      [] k = "underline" -> <<"]">>
      [] k = "strike" -> <<"]">>
      [] k = "code" -> <<Backquote>>

\* innermost first
WrapOrder == <<"bold", "italic", "underline", "strike", "code">>

RECURSIVE OpenersFrom(_)
\* the openers of the active attributes from position i on, outermost first
OpenersFrom(i) ==
    IF i > Len(WrapOrder) THEN <<>>
    ELSE OpenersFrom(i + 1) \o (IF Active(WrapOrder[i]) THEN Opener(WrapOrder[i]) ELSE <<>>)

RECURSIVE ClosersFrom(_)
\* the closers of the active attributes from position i on, innermost first
ClosersFrom(i) ==
    IF i > Len(WrapOrder) THEN <<>>
    ELSE (IF Active(WrapOrder[i]) THEN Closer(WrapOrder[i]) ELSE <<>>) \o ClosersFrom(i + 1)

\* C2: the formatted run is the text between the openers of its active
\* attributes, code outermost down to bold innermost, and their closers in
\* the opposite order; an attribute is active exactly when its value is the
\* boolean true, so with none active the text comes back unchanged, and
\* bold with italic gives _*text*_.
C2_FixedWrapOrder ==
    f_pc = "done" =>
        /\ f_out = OpenersFrom(1) \o f_text \o ClosersFrom(1)
        /\ (\A k \in InlineKeys : ~Active(k)) => f_out = f_text
        /\ (\A k \in InlineKeys : Active(k) <=> k \in {"bold", "italic"})
               => f_out = <<"_", "*">> \o f_text \o <<"*", "_">>

\* bold and italic are true, code is present but false, underline holds a
\* value that is no boolean, and the run came out as _*x*_
C2_Witness ==
    /\ f_pc = "done"
    /\ f_text = <<"x">>
    /\ Active("bold") /\ Active("italic")
    /\ MapGet(f_attributes.v, "code") = Some(Bool(FALSE))
    /\ MapGet(f_attributes.v, "underline") = Some(Str(<<"t">>))
    /\ f_out = <<"_", "*", "x", "*", "_">>

---------------------------------------------------------------------------
(* Claims about the memo validator *)

IsStringArray(v, min) ==
    /\ v.t = "arr"
    /\ Len(v.a) >= min
    /\ \A i \in 1..Len(v.a) : v.a[i].t = "str"

\* the memo meets every rule of the schema, stated from the schema's wording
SchemaValid(m) ==
    /\ DOMAIN m \subseteq
           {"memo-for", "from-block", "subject", "references", "signature-block", "body"}
    /\ {"memo-for", "from-block", "subject", "signature-block", "body"} \subseteq DOMAIN m
    /\ IsStringArray(m["memo-for"], 1)
    /\ IsStringArray(m["from-block"], 1)
    /\ IsStringArray(m["signature-block"], 2)
    /\ m["subject"].t = "str" /\ Len(m["subject"].s) >= 1
    /\ "references" \in DOMAIN m =>
           m["references"] = Null \/ IsStringArray(m["references"], 0)
    /\ m["body"].t = "obj"
    /\ DOMAIN m["body"].o \subseteq {"format", "data"}
    /\ "data" \in DOMAIN m["body"].o => m["body"].o["data"].t = "str"
    /\ "format" \in DOMAIN m["body"].o => m["body"].o["format"] = Str("plaintext")

\* C3: a memo that satisfies every rule of the schema validates to Ok(()),
\* with no errors.
C3_ValidMemoAccepted ==
    (v_pc = "done" /\ SchemaValid(memo)) => v_out = ValidationOk

\* a valid memo with a references array of strings and two memo-for items
\* was accepted
C3_Witness ==
    /\ v_pc = "done"
    /\ SchemaValid(memo)
    /\ MapGet(memo, "references") = Some(Arr(<<Str("a")>>))
    /\ memo["memo-for"] = Arr(<<Str("a"), Str("a")>>)
    /\ v_out = ValidationOk

RequiredProperties == {"memo-for", "from-block", "subject", "signature-block", "body"}

\* C4: for every required property absent from the memo, whatever else is
\* wrong with the memo, validate_memo returns Err and the list holds the
\* error that names the property: "Required property '<p>' is missing".
C4_MissingRequiredReported ==
    v_pc = "done" =>
        \A p \in RequiredProperties \ DOMAIN memo :
            /\ ~v_out.ok
            /\ BagIn(ValidationError(p, "Required property '" \o p \o "' is missing"),
                     v_out.errors)

\* from-block and body are missing from a memo that also has an unknown key
\* and an empty subject, and both are reported
C4_Witness ==
    /\ v_pc = "done"
    /\ "from-block" \notin DOMAIN memo /\ "body" \notin DOMAIN memo
    /\ "extra" \in DOMAIN memo
    /\ MapGet(memo, "subject") = Some(Str(""))
    /\ BagIn(ValidationError("from-block", "Required property 'from-block' is missing"),
             v_out.errors)
    /\ BagIn(ValidationError("body", "Required property 'body' is missing"), v_out.errors)

AllowedProperties ==
    {"memo-for", "from-block", "subject", "references", "signature-block", "body"}

UnexpectedError(key) ==
    ValidationError(key,
        "Unexpected property '" \o key \o "'. Allowed properties: "
            \o "memo-for, from-block, subject, references, signature-block, body")

\* C6: each top-level key outside the allowed set yields exactly one error
\* with that key as field_path and the list of allowed properties in its
\* message; a key of the allowed set yields none.
C6_OneErrorPerUnknownKey ==
    v_pc = "done" =>
        \A key \in DOMAIN memo :
            IF key \in AllowedProperties
            THEN v_out.ok \/ CopiesIn(UnexpectedError(key), v_out.errors) = 0
            ELSE ~v_out.ok /\ CopiesIn(UnexpectedError(key), v_out.errors) = 1

\* two unknown keys beside allowed ones, one of them spelled like the path of
\* a body member that is itself in error: one error each
C6_Witness ==
    /\ v_pc = "done"
    /\ {"extra", "body.extra", "subject", "body"} \subseteq DOMAIN memo
    /\ memo["body"].t = "obj" /\ "extra" \in DOMAIN memo["body"].o
    /\ CopiesIn(UnexpectedError("extra"), v_out.errors) = 1
    /\ CopiesIn(UnexpectedError("body.extra"), v_out.errors) = 1
    /\ CopiesIn(UnexpectedError("subject"), v_out.errors) = 0

\* the errors of a result
ErrorsOf(out) == IF out.ok THEN EmptyBag ELSE out.errors

\* the key in which memo2 differs from memo
EditedKeys == {MemoKeys[i] : i \in {j \in 1..Len(MemoKeys) :
                                      MapGet(memo, MemoKeys[j]) # MapGet(memo2, MemoKeys[j])}}

\* a field path that speaks of a key: the key itself, or a member of it
About(field_path, key) ==
    \/ field_path = key
    \/ field_path \in {key \o "." \o member : member \in {"format", "data", "extra"}}

\* the errors of a bag that speak of none of the keys
Elsewhere(errs, keys) ==
    LET keep == {e \in BagToSet(errs) : \A k \in keys : ~About(e.field_path, k)}
    IN  [e \in keep |-> errs[e]]

\* C5: validation never stops at a violation.  Giving one key of a memo
\* another value, removing it or adding it (which may add violations of any
\* of the five checks) leaves every error reported about the other keys in
\* the list, as many times as before, and adds none about them.
C5_NoShortCircuit ==
    v_pc = "done2" =>
        Elsewhere(ErrorsOf(v_out), EditedKeys) = Elsewhere(ErrorsOf(v_out2), EditedKeys)

\* a memo with an empty subject gets a body that is no object: the subject
\* error stays, the body type error joins it
C5_Witness ==
    /\ v_pc = "done2"
    /\ EditedKeys = {"body"}
    /\ MapGet(memo2, "body") = Some(Str("d"))
    /\ MapGet(memo, "subject") = Some(Str(""))
    /\ ~v_out.ok /\ ~v_out2.ok
    /\ BagIn(ValidationError("subject", "Property 'subject' cannot be empty (minLength: 1)"),
             v_out.errors)
    /\ BagIn(ValidationError("subject", "Property 'subject' cannot be empty (minLength: 1)"),
             v_out2.errors)
    /\ BagIn(ValidationError("body", "Property 'body' must be Object (got String)"),
             v_out2.errors)

---------------------------------------------------------------------------
(* Claims about apply_defaults *)

\* C7: apply_defaults is idempotent: applied to its own output it returns
\* that output again, for every input it can parse.
C7_ApplyDefaultsIdempotent ==
    a_pc = "done2" => a_out2 = a_out

\* a compact text with its members out of order and one of them repeated,
\* without references and with a body without format: the first call
\* rewrote it, the second changed nothing
C7_Witness ==
    /\ a_pc = "done2"
    /\ json_input = JsonText("compact",
           TextObj(<< Member("subject", Str("s")),
                      Member("body", Str("d")),
                      Member("body", TextObj(<<Member("data", Str("d"))>>)) >>))
    /\ a_out.ok
    /\ a_out.json # json_input
    /\ a_out.json.tree = TextObj(<<
           Member("body", TextObj(<<Member("data", Str("d")),
                                    Member("format", Str("plaintext"))>>)),
           Member("references", Null),
           Member("subject", Str("s")) >>)
    /\ a_out2 = a_out

ValueIn == from_str(json_input).value
ValueOut == from_str(a_out.json).value

\* the body of the input needs the format default
BodyLacksFormat ==
    /\ "body" \in DOMAIN ValueIn.o
    /\ ValueIn.o["body"].t = "obj"
    /\ "format" \notin DOMAIN ValueIn.o["body"].o

\* C8: in the JSON apply_defaults returns, references is null where the input
\* had no references and is the input's value otherwise; body.format is
\* "plaintext" where the input's body is an object without format and is the
\* input's value otherwise; every other key and value of the memo and of its
\* body is the input's, and nothing else is added; a root that is no object
\* comes back as it was.
C8_DefaultsFrame ==
    (a_pc \in {"done", "done2"} /\ a_out.ok) =>
        IF ValueIn.t # "obj" THEN ValueOut = ValueIn
        ELSE
        /\ ValueOut.t = "obj"
        /\ DOMAIN ValueOut.o = DOMAIN ValueIn.o \cup {"references"}
        /\ \A k \in DOMAIN ValueIn.o \ {"body"} : ValueOut.o[k] = ValueIn.o[k]
        /\ "references" \notin DOMAIN ValueIn.o => ValueOut.o["references"] = Null
        /\ "body" \in DOMAIN ValueIn.o =>
              IF BodyLacksFormat
              THEN /\ ValueOut.o["body"].t = "obj"
                   /\ DOMAIN ValueOut.o["body"].o = DOMAIN ValueIn.o["body"].o \cup {"format"}
                   /\ ValueOut.o["body"].o["format"] = Str("plaintext")
                   /\ \A k \in DOMAIN ValueIn.o["body"].o :
                          ValueOut.o["body"].o[k] = ValueIn.o["body"].o[k]
              ELSE ValueOut.o["body"] = ValueIn.o["body"]

\* references and body.format were both present, as an array and as
\* "markup", and came back as they were, beside an untouched subject
C8_Witness ==
    /\ a_pc = "done"
    /\ a_out.ok
    /\ ValueIn.t = "obj"
    /\ DOMAIN ValueIn.o = {"references", "body", "subject"}
    /\ ValueIn.o["references"] = Arr(<<Str("a")>>)
    /\ ValueIn.o["body"] = Obj("format" :> Str("markup") @@ "data" :> Str("d"))
    /\ ValueOut = ValueIn

---------------------------------------------------------------------------
(* Claims about resolve_binary_asset *)

\* no registered path ends with the requested one
Unrelated ==
    \A key \in DOMAIN BINARY_ASSET_REGISTRY :
        ~EndsWith(BINARY_ASSET_REGISTRY[key].path, r_path)

\* C9: in whatever order the registry is iterated, resolve_binary_asset
\* returns the bytes of the asset whose registered path is the requested
\* path, and returns None for a path that no registered path ends with.
C9_ResolveByCanonicalPath ==
    r_pc = "done" =>
        /\ \A key \in DOMAIN BINARY_ASSET_REGISTRY :
              r_path = BINARY_ASSET_REGISTRY[key].path
                  => r_out = Some(BINARY_ASSET_REGISTRY[key].content)
        /\ Unrelated => r_out = None

\* the registered path of Times.ttc, found after every other entry had been
\* visited
C9_Witness ==
    /\ r_pc = "done"
    /\ r_path = "memo-loader/assets/Times.ttc"
    /\ unvisited = {"Times.ttc"}
    /\ r_out = Some("../memo-loader/assets/Times.ttc")

\* the assets whose file name is the last segment of the requested path and
\* whose registered path ends with the requested path
RelativeMatches ==
    {key \in DOMAIN BINARY_ASSET_REGISTRY :
        /\ SplitLast(r_path) = SplitLast(BINARY_ASSET_REGISTRY[key].path)
        /\ EndsWith(BINARY_ASSET_REGISTRY[key].path, r_path)}

\* C10: for a requested path that is no registered path, resolve_binary_asset
\* returns the bytes of an asset exactly when the last segment of the
\* requested path is the asset's file name and the asset's registered path
\* ends with the requested path; when there is no such asset it returns None.
C10_RelativeMatch ==
    (r_pc = "done" /\ r_path \notin RegisteredPaths) =>
        IF RelativeMatches = {} THEN r_out = None
        ELSE \E key \in RelativeMatches :
                 r_out = Some(BINARY_ASSET_REGISTRY[key].content)

\* assets/dod_seal.gif, found after every other entry had been visited
C10_Witness ==
    /\ r_pc = "done"
    /\ r_path = "assets/dod_seal.gif"
    /\ unvisited = {"dod_seal.gif"}
    /\ r_out = Some("../memo-loader/assets/dod_seal.gif")

---------------------------------------------------------------------------
(* Claims about resolve_package_file *)

\* the one package the resolver knows
PackageIdentity == PackageSpec("preview", "tonguetoquill-usaf-memo", PackageVersion(0, 1, 0))

\* the files of the package and the registry entries that hold them
PackageFiles ==
    ( "typst.toml" :> "package-typst-toml"
   @@ "src/lib.typ" :> "package-lib"
   @@ "src/utils.typ" :> "package-utils" )

\* C11: resolve_package_file returns Some(content), the content of the
\* embedded file, if and only if the namespace, name and version of spec are
\* those of the one hardcoded package and path is typst.toml, src/lib.typ or
\* src/utils.typ; with any of the four different it returns None.
C11_SinglePackageAllowlist ==
    p_pc = "done" =>
        IF p_spec = PackageIdentity /\ p_path \in DOMAIN PackageFiles
        THEN p_out = Some(STRING_ASSET_REGISTRY[PackageFiles[p_path]].content)
        ELSE p_out = None

\* the hardcoded package asked for src/utils.typ
C11_Witness ==
    /\ p_pc = "done"
    /\ p_spec = PackageIdentity
    /\ p_path = "src/utils.typ"
    /\ p_out = Some("../tonguetoquill-usaf-memo/src/utils.typ")

---------------------------------------------------------------------------
(* Claims about the registries under concurrent first access *)

\* the table a registry's closure builds
Built(reg) == IF reg = "STRING" THEN STRING_ASSET_REGISTRY ELSE BINARY_ASSET_REGISTRY

\* C12: however the first accesses of several callers interleave, the
\* initializer of a registry is entered at most once, and exactly once when
\* the table is complete; a caller that reads, reads the fully built table,
\* with every inserted entry and nothing else; a complete table stays what it
\* is; and every lookup of a key, by any caller at any time, has returned the
\* one result the built table gives.
C12_InitializedOnce ==
    lock # <<>> =>
        \A reg \in Registries :
            /\ init_count[reg] <= 1
            /\ lock[reg] = "complete" => (init_count[reg] = 1 /\ table[reg] = Built(reg))
            /\ \A t \in Callers :
                   (t_pc[t] = "read" /\ t_reg[t] = reg) => table[reg] = Built(reg)
            /\ \A o \in observed : o[1] = reg => o[3] = load_from(Built(reg), o[2])

\* both callers made their first call on the binary registry at once: one
\* is in the closure with two of the five entries inserted, the other waits
C12_Witness ==
    /\ lock # <<>>
    /\ lock["BINARY"] = "running"
    /\ t_pc[1] = "init" /\ t_reg[1] = "BINARY"
    /\ t_pc[2] = "force" /\ t_reg[2] = "BINARY"
    /\ Cardinality(DOMAIN building["BINARY"]) = 2
    /\ t_left = [t \in Callers |-> MaxCalls - 1]

---------------------------------------------------------------------------
(* Claims about list items *)

\* the attributes of the operation at hand say list = bullet or ordered
IsListNewline ==
    /\ HasInsert
    /\ insert = Str(<<NL>>)
    /\ Get(op, "attributes").some
    /\ Get(op, "attributes").v.t = "obj"
    /\ "list" \in DOMAIN Get(op, "attributes").v.o
    /\ Get(op, "attributes").v.o["list"] \in {Str(BulletStr), Str(OrderedStr)}

\* the indent level of the operation at hand: attribute indent, default 0
IndentLevel ==
    LET attrs == Get(op, "attributes").v.o
    IN  IF "indent" \in DOMAIN attrs /\ attrs["indent"].t = "num" /\ attrs["indent"].n >= 0
        THEN attrs["indent"].n
        ELSE 0

ListMarker ==
    IF Get(op, "attributes").v.o["list"] = Str(BulletStr) THEN <<"-">> ELSE <<"+">>

\* C13: a newline operation whose attributes hold list = bullet or ordered
\* appends to the output one line: two spaces for each level of indent
\* (attribute indent, 0 without it), the marker - for bullet and + for
\* ordered, one space, the text of the current line, and the line break.
C13_ListItemLine ==
    [][ (InLoop /\ IsListNewline) =>
            result' = result \o Repeat(<<" ", " ">>, IndentLevel) \o ListMarker
                             \o <<" ">> \o current_line \o <<NL>> ]_vars

\* a bullet item at indent 0 followed by a bullet item at indent 1: two
\* lines, the second with two more spaces in front
C13_Witness ==
    /\ d_pc = "done"
    /\ delta_json = Parsed(Obj("ops" :> Arr(<<
           Insert(Str(<<"a">>)),
           InsertWith(Str(<<NL>>), "list" :> Str(BulletStr)),
           InsertWith(Str(<<"b">>), "bold" :> Bool(TRUE)),
           InsertWith(Str(<<NL>>), "list" :> Str(BulletStr) @@ "indent" :> Num(1)) >>)))
    /\ d_out = Ok(<<"-", " ", "a", NL, " ", " ", "-", " ", "*", "b", "*">>)

---------------------------------------------------------------------------
(* Claims about the content dispatcher *)

\* the content JSON is an object whose data is a string
IsContentObject ==
    /\ c_json.parses
    /\ c_json.value.t = "obj"
    /\ "data" \in DOMAIN c_json.value.o
    /\ c_json.value.o["data"].t = "str"

ContentData == c_json.value.o["data"].s

\* C14: for a content whose format is markup the result is Ok(data), the
\* data as it was given; for a content whose format is delta the result is
\* what DeltaParser::parse returned for data, Ok or Err; a content without
\* the key format is treated as one whose format is markup.
C14_ContentDispatch ==
    (c_pc = "done" /\ IsContentObject) =>
        /\ ("format" \notin DOMAIN c_json.value.o \/ c_json.value.o["format"] = Str("markup"))
               => c_out = Ok(ContentData)
        /\ ("format" \in DOMAIN c_json.value.o /\ c_json.value.o["format"] = Str("delta"))
               => /\ delta_json = ContentData
                  /\ d_pc = "done"
                  /\ d_out # NoOutcome
                  /\ c_out = d_out

\* a content without format whose data is a Delta document came back as it
\* was given
C14_Witness ==
    /\ c_pc = "done"
    /\ c_json = Parsed(Obj("data" :> Str(Parsed(Obj("ops" :> Arr(<<>>))))))
    /\ c_out = Ok(Parsed(Obj("ops" :> Arr(<<>>))))
    /\ d_pc = "idle"

---------------------------------------------------------------------------
(* Claims about preprocess_form_json *)

FormIn == from_str(q_json).value
FormOut == from_str(q_out.json).value

\* body_raw is missing or empty: absent, null or the empty string
BodyRawMissingOrEmpty ==
    \/ "body_raw" \notin DOMAIN FormIn.o
    \/ FormIn.o["body_raw"] = Null
    \/ FormIn.o["body_raw"] = Str("")

\* the form has a body that is a content object: an object with a string
\* data and, if any, the format markup or delta
HasBodyContentObject ==
    /\ "body" \in DOMAIN FormIn.o
    /\ FormIn.o["body"].t = "obj"
    /\ "data" \in DOMAIN FormIn.o["body"].o
    /\ FormIn.o["body"].o["data"].t = "str"
    /\ "format" \in DOMAIN FormIn.o["body"].o
           => FormIn.o["body"].o["format"] \in {Str("markup"), Str("delta")}

\* the markup the body resolves to
ResolvedMarkup ==
    IF "format" \in DOMAIN FormIn.o["body"].o /\ FormIn.o["body"].o["format"] = Str("delta")
    THEN d_out.markup
    ELSE FormIn.o["body"].o["data"].s

\* C15: in the JSON preprocess_form_json returns, body_raw is the markup
\* resolved from body exactly when the form's body_raw is absent, null or
\* the empty string and the form has a body content object; otherwise
\* body_raw is what it was, present or absent; every other field of the form
\* is what it was, and a form that is no object comes back as it was.
C15_BodyRawFilledWhenEmpty ==
    (q_pc = "done" /\ q_out.ok) =>
        IF FormIn.t # "obj" THEN FormOut = FormIn
        ELSE LET fill == BodyRawMissingOrEmpty /\ HasBodyContentObject
             IN  /\ FormOut.t = "obj"
                 /\ DOMAIN FormOut.o =
                        DOMAIN FormIn.o \cup (IF fill THEN {"body_raw"} ELSE {})
                 /\ \A k \in DOMAIN FormIn.o \ {"body_raw"} : FormOut.o[k] = FormIn.o[k]
                 /\ IF fill
                    THEN FormOut.o["body_raw"] = Str(ResolvedMarkup)
                    ELSE "body_raw" \in DOMAIN FormIn.o
                             => FormOut.o["body_raw"] = FormIn.o["body_raw"]

---------------------------------------------------------------------------
(* Claims about the validator and the dispatcher together *)

\* the memo is an object with a body object that has a format
HasBodyFormat(m) ==
    /\ "body" \in DOMAIN m
    /\ m["body"].t = "obj"
    /\ "format" \in DOMAIN m["body"].o

\* the memo with another value for body.format
WithBodyFormat(m, format) ==
    [m EXCEPT !["body"] = Obj([m["body"].o EXCEPT !["format"] = format])]

\* the memo meets every rule of the schema but, perhaps, that of body.format
OtherwiseValid(m) == HasBodyFormat(m) /\ SchemaValid(WithBodyFormat(m, Str("plaintext")))

\* C16: the validator accepts the body formats the dispatcher accepts, markup
\* and delta: a memo that is valid but for its body.format passes
\* validate_memo when that format is markup or delta, and the body of every
\* memo that passes validate_memo deserializes as a Content, which
\* process_content takes.
C16_ValidatorAcceptsDispatcherFormats ==
    v_pc = "done" =>
        /\ (OtherwiseValid(memo) /\ memo["body"].o["format"] \in {Str("markup"), Str("delta")})
               => v_out = ValidationOk
        /\ v_out = ValidationOk => content_from_value(memo["body"]).some

---------------------------------------------------------------------------
(* Claims about the World callbacks *)

\* the package a main document imports as @preview/tonguetoquill-usaf-memo:0.0.3
ImportedPackage == PackageSpec("preview", "tonguetoquill-usaf-memo", PackageVersion(0, 0, 3))

\* C17: asked for typst.toml or src/lib.typ of the package
\* @preview/tonguetoquill-usaf-memo:0.0.3, the callback source returns the
\* embedded package source, not FileError::NotFound.
C17_ImportedPackageResolves ==
    (w_pc = "compiling" /\ w_out # NoFileResult /\ w_id.package = Some(ImportedPackage)
        /\ w_id.vpath \in {"typst.toml", "src/lib.typ"})
        => /\ w_out.ok
           /\ w_out.source = Source(w_id, STRING_ASSET_REGISTRY[PackageFiles[w_id.vpath]].content)

---------------------------------------------------------------------------
\* the members a minimal memo has: the four required blocks and a body content object
MeetsMinimalRequirements(text) ==
    /\ from_str(text).parses
    /\ from_str(text).value.t = "obj"
    /\ LET o == from_str(text).value.o
       IN  /\ {"memo-for", "from-block", "subject", "signature-block", "body"} \subseteq DOMAIN o
           /\ \A k \in {"memo-for", "from-block", "signature-block"} :
                  o[k].t = "arr" /\ Len(o[k].a) >= 1
           /\ o["subject"].t = "str"
           /\ o["body"].t = "obj"
           /\ {"format", "data"} \subseteq DOMAIN o["body"].o

\* C18: validate_official_memo_schema of a memo that meets the minimal requirements
\* returns Ok(()) or Err(InvalidFormat) with a message containing "Invalid schema JSON",
\* and nothing else.
C18_MinimalMemoOutcomes ==
    (s_pc = "done" /\ MeetsMinimalRequirements(s_json))
        => \/ s_out = OkUnit
           \/ /\ ~s_out.ok
              /\ s_out.err = "InvalidFormat"
              /\ contains(s_out.msg, "Invalid schema JSON")

---------------------------------------------------------------------------
\* the lower-case letter of an ASCII letter of "PDF"; every other character is itself
lower_char(c) ==
    IF c = "P" THEN "p" ELSE IF c = "D" THEN "d" ELSE IF c = "F" THEN "f" ELSE c

RECURSIVE to_lowercase(_)
\* the string in lower case, character by character
to_lowercase(s) ==
    IF Len(s) = 0 THEN ""
    ELSE lower_char(SubSeq(s, 1, 1)) \o to_lowercase(SubSeq(s, 2, Len(s)))

\* C19: render_form selects Pdf for every spelling of "pdf" in any mix of upper and
\* lower case, and Svg for every other format value and for an absent one.
C19_FormatCaseInsensitive ==
    o_pc = "done"
        => o_config.format =
               IF o_format.some /\ to_lowercase(o_format.v) = "pdf" THEN "Pdf" ELSE "Svg"

---------------------------------------------------------------------------
\* the calls that have their Result, taken by the caller or not yet
Finished ==
    k_returns \cup {<<k_frames[t].delta_json, k_frames[t].out>> :
                       t \in {u \in Threads : k_frames[u].pc = "done"}}

---------------------------------------------------------------------------
\* the value does not satisfy the rule
RuleFails(value, r) ==
    CASE r.rule = "Type" -> ValueTypeOf(value) # r.expected
      [] r.rule = "ArrayItems" ->
            ~(value.t = "arr" /\ \A i \in 1..Len(value.a) : ValueTypeOf(value.a[i]) = r.expected)
      [] r.rule = "StringLength" -> ~(value.t = "str" /\ Len(value.s) >= r.min)
      [] r.rule = "ArrayLength" -> ~(value.t = "arr" /\ Len(value.a) >= r.min)
      [] r.rule = "NullableArray" -> value.t \notin {"null", "arr"}
      [] r.rule = "Enum" -> ~(value.t = "str" /\ Contains(r.allowed, value.s))

\* the rules of a list that the value fails
FailingRules(value, rules) == {i \in 1..Len(rules) : RuleFails(value, rules[i])}

\* C21: for every property present in the memo, validate_property reports as many
\* errors as there are rules in the property's list that the value fails, one error
\* for each failing rule.
C21_OneErrorPerFailingRule ==
    v_pc = "done"
        => \A prop_name \in DOMAIN schema.properties \cap DOMAIN memo :
               BagCardinality(validate_property(memo[prop_name],
                                  schema.properties[prop_name], prop_name))
                   = Cardinality(FailingRules(memo[prop_name], schema.properties[prop_name]))

---------------------------------------------------------------------------
(* Claims about block lines *)

\* the operation at hand is a newline with an attributes object
IsAttributedNewline ==
    /\ HasInsert
    /\ insert = Str(<<NL>>)
    /\ Get(op, "attributes").some
    /\ Get(op, "attributes").v.t = "obj"

\* the attributes of the operation at hand
NewlineAttributes == Get(op, "attributes").v.o

\* the attributes name no list that the transpiler knows
NoRecognizedList ==
    \/ "list" \notin DOMAIN NewlineAttributes
    \/ NewlineAttributes["list"] \notin {Str(BulletStr), Str(OrderedStr)}

\* the header of a line: = as many times as the level, a space, the text
AsHeader(text) ==
    IF "header" \in DOMAIN NewlineAttributes /\ NewlineAttributes["header"].t = "num"
        /\ NewlineAttributes["header"].n >= 0
    THEN Repeat(<<"=">>, NewlineAttributes["header"].n) \o <<" ">> \o text
    ELSE text

AsBlockquote(text) ==
    IF "blockquote" \in DOMAIN NewlineAttributes /\ NewlineAttributes["blockquote"] = Bool(TRUE)
    THEN <<">", " ">> \o text
    ELSE text

AsCodeBlock(text) ==
    IF "code-block" \in DOMAIN NewlineAttributes /\ NewlineAttributes["code-block"] = Bool(TRUE)
    THEN <<Backquote, Backquote, Backquote, NL>> \o text \o <<NL, Backquote, Backquote, Backquote>>
    ELSE text

\* the line break that ends a list, where the line before was a list item
ListEnd == IF in_list THEN <<NL>> ELSE <<>>

\* C22: a newline operation with attributes but without a recognized list attribute
\* appends the current line as header, then blockquote, then code block, and then
\* always a line break, also where the current line is empty and no block attribute
\* is present.
C22_BlockLineThenBreak ==
    [][ (InLoop /\ IsAttributedNewline /\ NoRecognizedList) =>
            result' = result \o ListEnd \o AsCodeBlock(AsBlockquote(AsHeader(current_line)))
                             \o <<NL>> ]_vars

---------------------------------------------------------------------------
\* the operation is a newline whose list attribute is a string other than bullet and ordered
UnrecognizedList(operation) ==
    /\ Get(operation, "insert") = Some(Str(<<NL>>))
    /\ Get(operation, "attributes").some
    /\ Get(operation, "attributes").v.t = "obj"
    /\ "list" \in DOMAIN Get(operation, "attributes").v.o
    /\ Get(operation, "attributes").v.o["list"].t = "str"
    /\ Get(operation, "attributes").v.o["list"] \notin {Str(BulletStr), Str(OrderedStr)}

\* C23: a document with a newline operation whose list attribute is a string other
\* than bullet and ordered makes parse return Err(UnsupportedOperation); the line is
\* not rendered as a plain line and not passed by.
C23_UnknownListTypeRejected ==
    (d_pc = "done" /\ ParsedOps /\ \E j \in 1..Len(Ops) : UnrecognizedList(Ops[j]))
        => d_out = Err("UnsupportedOperation")

---------------------------------------------------------------------------
\* C24: the current line never holds a line break: every line break of an inserted
\* text, alone or among other characters, ends the current line, so the attributes of
\* a newline operation apply to the text since the last line break only.
C24_CurrentLineHasNoBreak ==
    \A j \in 1..Len(current_line) : current_line[j] # NL

---------------------------------------------------------------------------
\* C25: preprocess_form_json does not fall back silently: where body_raw is absent,
\* null or empty and the form has a body, the call returns an error or a JSON
\* whose body_raw is a string; it does not return the form with body_raw unfilled.
C25_NoSilentFallback ==
    (q_pc = "done" /\ from_str(q_json).parses /\ FormIn.t = "obj"
        /\ BodyRawMissingOrEmpty /\ "body" \in DOMAIN FormIn.o)
        => \/ ~q_out.ok
           \/ /\ FormOut.t = "obj"
              /\ "body_raw" \in DOMAIN FormOut.o
              /\ FormOut.o["body_raw"].t = "str"

---------------------------------------------------------------------------
\* the errors of the call whose field_path is the given one
ErrorsAt(field_path) == {e \in BagToSet(ErrorsOf(v_out)) : e.field_path = field_path}

\* references is an array of strings, the empty array included
ReferencesAreStrings ==
    /\ memo["references"].t = "arr"
    /\ \A i \in 1..Len(memo["references"].a) : memo["references"].a[i].t = "str"

\* C26: validate_memo reports an error with field_path references exactly when
\* references is present, is not null and is not an array of strings; absent, null,
\* the empty array and arrays of strings give no such error.
C26_ReferencesErrors ==
    v_pc = "done"
        => (ErrorsAt("references") # {}
               <=> /\ "references" \in DOMAIN memo
                   /\ memo["references"] # Null
                   /\ ~ReferencesAreStrings)

\* an array with a number for references, reported
C26_Witness ==
    /\ v_pc = "done"
    /\ "references" \in DOMAIN memo
    /\ memo["references"] = Arr(<<Num(1)>>)
    /\ ErrorsAt("references") # {}

---------------------------------------------------------------------------
\* how many errors of the call have the given field_path
CountAt(field_path) ==
    BagCardinality([e \in ErrorsAt(field_path) |-> ErrorsOf(v_out)[e]])

\* the errors of the call whose field_path begins with body.
NestedErrors ==
    {e \in BagToSet(ErrorsOf(v_out)) :
        Len(e.field_path) > 5 /\ SubSeq(e.field_path, 1, 5) = "body."}

\* C27: the nested check of the body runs exactly when body is present and is an
\* object.  It reports one error for each key of the body other than format and
\* data, and the rule failures of format and data, all with a field_path that begins
\* with body. and names a key of the body; a body that is no object gets the one
\* type error of the top level and no nested error.  (Memos with the top-level key
\* named body.extra are left aside: its own error has such a path.)
C27_NestedBodyCheck ==
    (v_pc = "done" /\ "body.extra" \notin DOMAIN memo)
        => IF "body" \in DOMAIN memo /\ memo["body"].t = "obj"
           THEN LET body == memo["body"].o
                IN  /\ \A k \in DOMAIN body \ {"format", "data"} : CountAt("body." \o k) = 1
                    /\ ErrorsAt("body.format") # {}
                           <=> /\ "format" \in DOMAIN body
                               /\ body["format"] # Str("plaintext")
                    /\ ErrorsAt("body.data") # {}
                           <=> "data" \in DOMAIN body /\ body["data"].t # "str"
                    /\ \A e \in NestedErrors :
                           \E k \in DOMAIN body : e.field_path = "body." \o k
                    /\ ErrorsAt("body") = {}
           ELSE /\ NestedErrors = {}
                /\ "body" \in DOMAIN memo => CountAt("body") = 1

\* a body with a key besides format and data: one error, at body.extra
C27_Witness ==
    /\ v_pc = "done"
    /\ "body.extra" \notin DOMAIN memo
    /\ "body" \in DOMAIN memo
    /\ memo["body"] = Obj("format" :> Str("plaintext") @@ "data" :> Str("d") @@ "extra" :> Null)
    /\ CountAt("body.extra") = 1

---------------------------------------------------------------------------
\* C28: in render_form the main file of the compilation is the memo-loader template:
\* World::main does not return the id of the JSON input file, which is in the same
\* map of sources, whatever the order in which the map is walked.
C28_MainIsTemplate ==
    g_pc = "main" => g_main = Some(memo_loader_file_id(g_timestamp))

---------------------------------------------------------------------------
\* C29: apply_defaults introduces no validation error: every error validate reports
\* on the defaulted memo it reports on the memo itself, so a memo that is valid
\* stays valid.
C29_DefaultsAddNoError ==
    v_pc = "done2" => ErrorsOf(v_out2) \sqsubseteq ErrorsOf(v_out)

\* a valid memo without references and without a format in its body: both are
\* filled in and the memo is still valid
C29_Witness ==
    /\ v_pc = "done2"
    /\ "references" \notin DOMAIN memo
    /\ "body" \in DOMAIN memo
    /\ memo["body"] = Obj("data" :> Str("d"))
    /\ v_out.ok
    /\ memo2["references"] = Null
    /\ memo2["body"] = Obj("format" :> Str("plaintext") @@ "data" :> Str("d"))
    /\ v_out2.ok

---------------------------------------------------------------------------
(* Claims about the in_list flag *)

\* the operation is a newline
IsNewlineOp(operation) == Get(operation, "insert") = Some(Str(<<NL>>))

\* the operation is a newline with list = bullet or ordered
IsListItemOp(operation) ==
    /\ IsNewlineOp(operation)
    /\ Get(operation, "attributes").some
    /\ Get(operation, "attributes").v.t = "obj"
    /\ "list" \in DOMAIN Get(operation, "attributes").v.o
    /\ Get(operation, "attributes").v.o["list"] \in {Str(BulletStr), Str(OrderedStr)}

\* the newline operations among those already processed
ProcessedNewlines == {j \in 1..d_i : IsNewlineOp(Ops[j])}

\* the most recently processed newline operation was a list item
LastNewlineIsListItem ==
    /\ ProcessedNewlines # {}
    /\ IsListItemOp(Ops[CHOOSE j \in ProcessedNewlines : \A k \in ProcessedNewlines : k <= j])

\* what a newline that is no list item writes where no list went before
LineContent ==
    IF IsAttributedNewline
    THEN LET line == AsCodeBlock(AsBlockquote(AsHeader(current_line)))
         IN  line \o (IF line # <<>> THEN <<NL>> ELSE <<>>)
    ELSE current_line \o <<NL>>

\* C30: through the loop over the operations in_list is true exactly when the newline
\* operation processed last was a list item; a list item that follows a list item is
\* written right after it, and a newline that is no list item writes one line break
\* more, before its content, exactly when it follows a list item.
C30_InListTracksLastNewline ==
    /\ [](d_pc = "loop" => (in_list <=> LastNewlineIsListItem))
    /\ [][ (InLoop /\ IsNewlineOp(op)) =>
              IF IsListItemOp(op)
              THEN result' = result \o Repeat(<<" ", " ">>, IndentLevel) \o ListMarker
                                    \o <<" ">> \o current_line \o <<NL>>
              ELSE result' = result \o (IF in_list THEN <<NL>> ELSE <<>>) \o LineContent ]_vars

\* two list items and then a header line: the items on consecutive lines, one line
\* break between the list and the header
C30_Witness ==
    /\ d_pc = "loop"
    /\ d_i = 3
    /\ Ops = <<InsertWith(Str(<<NL>>), "list" :> Str(BulletStr)),
               InsertWith(Str(<<NL>>), "list" :> Str(BulletStr)),
               InsertWith(Str(<<NL>>), "header" :> Num(2))>>
    /\ result = <<"-", " ", NL, "-", " ", NL, NL, "=", "=", " ", NL>>
    /\ ~in_list

=============================================================================
